---- MODULE Spec2Model ----
(***************************************************************************)
(* Model of the blockchain integration layer of the kairos backend:        *)
(* backend/blockchain.py (BlockchainService), the ticket listing endpoint  *)
(* of backend/blockchain_api.py and the Ticket table of backend/models.py. *)
(*                                                                         *)
(* The process environment (variables, artifact files, importable          *)
(* packages) is fixed at process start; the reachability of the RPC        *)
(* endpoint changes at any time.  Every handler is cut at its network      *)
(* I/O: one action per piece of code between two network operations.       *)
(***************************************************************************)
EXTENDS Integers, Sequences, FiniteSets, TLC

VARIABLES
    environ,          \* os.environ, the artifact files and the importable packages
    reachable,        \* whether the RPC endpoint answers right now
    node,             \* the node behind the endpoint: the signer's transaction count, the submissions received
    init_pc,          \* position of BlockchainService.__init__
    w3,               \* self.w3
    contracts,        \* self.contracts (the names of its keys)
    account,          \* self.account
    chain_id,         \* self.chain_id
    current_network,  \* self.current_network
    _blockchain_service,  \* the module's global: the service get_blockchain_service hands out
    instances,        \* how many BlockchainService objects were constructed so far
    tickets,          \* the rows of the tickets table
    users,            \* the rows of the users table, by id
    events,           \* the rows of the events table, by id
    setup,            \* setup-tickets.py: its position and its local variables
    frame             \* per request thread: the call in progress or the last call's result

vars == <<environ, reachable, node, init_pc, w3, contracts, account, chain_id,
          current_network, _blockchain_service, instances, tickets, users, events,
          setup, frame>>

service == <<w3, contracts, account, chain_id, current_network>>

singleton == <<_blockchain_service, instances>>

\* what the web handlers and the setup script keep besides the tickets
store == <<users, events, setup>>

----------------------------------------------------------------------------
(* Bounds of the model *)

\* write calls a request thread makes that reach the node or may still reach it
MaxTx == 1

----------------------------------------------------------------------------
(* Values *)

None == "None"

\* Optional integers: <<>> is None, <<n>> is n
Nothing == <<>>
Some(n) == <<n>>

ContractNames == {"EventContract", "PaymentProcessor", "TicketNFT"}

\* BlockchainService.NETWORKS: chain id and block explorer of each network
NETWORKS ==
    [n \in {"mainnet", "polygon", "mumbai", "sepolia", "localhost"} |->
        CASE n = "mainnet"   -> [chain_id |-> 1,        block_explorer |-> "https://etherscan.io"]
          [] n = "polygon"   -> [chain_id |-> 137,      block_explorer |-> "https://polygonscan.com"]
          [] n = "mumbai"    -> [chain_id |-> 80001,    block_explorer |-> "https://mumbai.polygonscan.com"]
          [] n = "sepolia"   -> [chain_id |-> 11155111, block_explorer |-> "https://sepolia.etherscan.io"]
          [] n = "localhost" -> [chain_id |-> 1337,     block_explorer |-> None]]

\* the chain id the node of the configured network reports
NodeChainId(network) ==
    IF network \in DOMAIN NETWORKS THEN NETWORKS[network].chain_id ELSE 1337

\* the address Account.from_key derives from a well-formed key
SignerAddress == "0xSigner"

Threads == {"t1", "t2"}
MainThreads == {"t1"}

----------------------------------------------------------------------------
(* The process environment *)

KeySettings     == {"unset", "valid", "malformed"}
AddressSettings == {"unset", "valid", "malformed"}
ArtifactStates  == {"valid", "missing", "corrupt"}
NetworkSettings == {"localhost", "sepolia"}

\* every environment the process can be started in
Environs ==
    [ importable            : BOOLEAN,          \* web3 / eth_account can be imported
      BLOCKCHAIN_NETWORK    : NetworkSettings,
      BLOCKCHAIN_PRIVATE_KEY: KeySettings,
      address               : [ContractNames -> AddressSettings],   \* <NAME>_ADDRESS
      artifact              : [ContractNames -> ArtifactStates] ]   \* artifacts/contracts/<Name>.sol/<Name>.json

\* the environments of a local deployment that is installed and built: the
\* packages import, the artifacts are there, and a key or an address that is
\* given is well-formed
ServingEnvirons ==
    { e \in Environs :
        /\ e.importable
        /\ e.BLOCKCHAIN_NETWORK = "localhost"
        /\ e.BLOCKCHAIN_PRIVATE_KEY # "malformed"
        /\ \A c \in ContractNames : e.artifact[c] = "valid" /\ e.address[c] # "malformed" }

\* the rows of the tickets table: token_id is unique
DemoTickets ==
    { [token_id |-> 1, event_id |-> 1, user_id |-> 1, wallet_address |-> "0xA",
       purchase_date |-> [seconds |-> 100, microsecond |-> 250000], is_used |-> FALSE, is_active |-> TRUE,
       seat_info |-> "Seat-1", ticket_type |-> "VIP"],
      [token_id |-> 2, event_id |-> 1, user_id |-> 2, wallet_address |-> "0xB",
       purchase_date |-> [seconds |-> 100, microsecond |-> 250000], is_used |-> FALSE, is_active |-> TRUE,
       seat_info |-> "Seat-2", ticket_type |-> "Standard"],
      [token_id |-> 3, event_id |-> 2, user_id |-> 1, wallet_address |-> "0xA",
       purchase_date |-> [seconds |-> 200, microsecond |-> 0], is_used |-> TRUE, is_active |-> TRUE,
       seat_info |-> "Seat-1", ticket_type |-> "VIP"],
      [token_id |-> 4, event_id |-> 2, user_id |-> 1, wallet_address |-> "0xB",
       purchase_date |-> [seconds |-> 200, microsecond |-> 0], is_used |-> FALSE, is_active |-> TRUE,
       seat_info |-> "Seat-2", ticket_type |-> "Standard"] }

\* the rows of the users table (the columns the modelled handlers read or
\* write); users 1 and 2 have a wallet, the profile of user 2 is private
DemoUsers ==
    [id \in {1, 2, 3} |->
        [id |-> id,
         username |-> CASE id = 1 -> "alice" [] id = 2 -> "bob" [] id = 3 -> "carol",
         email |-> CASE id = 1 -> "alice@example.com" [] id = 2 -> "bob@example.com"
                     [] id = 3 -> "carol@example.com",
         bio |-> "hello",
         is_active |-> TRUE,
         is_admin |-> id = 1,
         wallet_address |-> CASE id = 1 -> "0xA" [] id = 2 -> "0xB" [] id = 3 -> None,
         wallet_verified |-> id = 1,
         is_profile_public |-> id # 2]]

\* the rows of the events table; dates are counted in days
DemoEvents ==
    [id \in {1, 2} |->
        [id |-> id,
         title |-> IF id = 1 THEN "Launch" ELSE "Meetup",
         start_date |-> 20,
         end_date |-> IF id = 1 THEN Some(22) ELSE Nothing,
         capacity |-> 50,
         organizer_id |-> id,
         is_active |-> TRUE]]

\* setup-tickets.py is not running
SetupIdle == [pc |-> "idle", demo_tickets |-> <<>>, ticket |-> Nothing,
              token_id |-> 1, i |-> 1, j |-> 1]

----------------------------------------------------------------------------
(* Call frames *)

NoRet     == [kind |-> "none"]
Return(v) == [kind |-> "return", val |-> v]
Raise(e)  == [kind |-> "raise", err |-> e]

\* the keyword arguments of send_transaction: each is given or not
NoKwargs == [gas |-> Nothing, value |-> Nothing, nonce |-> Nothing,
             gasPrice |-> Nothing, chainId |-> Nothing]

\* the arguments of the send_transaction or call_function a frame is in
NoSend == [contract_name |-> None, function_name |-> None, kwargs |-> NoKwargs]

\* the transaction envelope under construction
NoTx == [from |-> None, chainId |-> Nothing, gasPrice |-> Nothing,
         nonce |-> Nothing, gas |-> Nothing, value |-> Nothing]

IdleFrame ==
    [op |-> "none", pc |-> "done", args |-> <<>>, did |-> <<>>,
     send |-> NoSend, tx |-> NoTx, exc |-> None, time |-> Nothing, ret |-> NoRet]

\* a frame entering operation op
Enter(op, args) == [IdleFrame EXCEPT !.op = op, !.pc = "entered", !.args = args]

\* a frame leaving its operation
Finish(f, ret) == [f EXCEPT !.pc = "done", !.ret = ret]

\* a frame suspended before the network operation pc
Goto(f, pc) == [f EXCEPT !.pc = pc]

\* the frame after it did step (a lookup, a network operation, a signature)
Did(f, step) == [f EXCEPT !.did = Append(@, step)]

----------------------------------------------------------------------------
(* Construction: BlockchainService.__init__ *)

\* the service as its construction begins
InitBlockchain(envs) ==
    /\ environ \in envs
    /\ reachable \in BOOLEAN
    /\ node = [count |-> 0, received |-> <<>>, gas_price |-> 20, estimate |-> 50000]
    /\ init_pc = "import"
    /\ w3 = None
    /\ contracts = {}
    /\ account = None
    /\ chain_id = Nothing
    /\ current_network = None
    /\ _blockchain_service = Nothing
    /\ instances = 1

InitService(envs) ==
    /\ InitBlockchain(envs)
    /\ tickets = DemoTickets
    /\ users = DemoUsers
    /\ events = DemoEvents
    /\ setup = SetupIdle
    /\ frame = [t \in Threads |-> IdleFrame]

Init == InitService(ServingEnvirons)

\* the endpoint comes back or goes away
NetChange ==
    /\ reachable' = ~reachable
    /\ UNCHANGED <<environ, node, init_pc, service, singleton, store, tickets, frame>>

\* _initialize_web3: the lazy imports, the network name and the client handle
InitImport ==
    /\ init_pc = "import"
    /\ IF environ.importable
          THEN /\ current_network' = environ.BLOCKCHAIN_NETWORK
               /\ w3' = "Web3"
               /\ init_pc' = "probe"
          ELSE /\ w3' = None                      \* except ImportError
               /\ init_pc' = "load"
               /\ UNCHANGED current_network
    /\ UNCHANGED <<environ, reachable, node, contracts, account, chain_id, singleton, store, tickets, frame>>

\* _initialize_web3: self.w3.client_version
InitProbe ==
    /\ init_pc = "probe"
    /\ IF reachable
          THEN init_pc' = "chain_id" /\ UNCHANGED w3
          ELSE init_pc' = "key" /\ w3' = None
    /\ UNCHANGED <<environ, reachable, node, contracts, account, chain_id, current_network, singleton, store, tickets, frame>>

\* _initialize_web3: self.chain_id = self.w3.eth.chain_id
InitChainId ==
    /\ init_pc = "chain_id"
    /\ IF reachable
          THEN chain_id' = Some(NodeChainId(current_network)) /\ UNCHANGED w3
          ELSE chain_id' = Nothing /\ w3' = None
    /\ init_pc' = "key"
    /\ UNCHANGED <<environ, reachable, node, contracts, account, current_network, singleton, store, tickets, frame>>

\* the private key read without the handler of line 130: Account.from_key
\* raises out of the constructor on a malformed key
AfterKey_Uncaught(key) ==
    CASE key = "unset"     -> [w3 |-> w3, chain_id |-> chain_id, account |-> None, pc |-> "load"]
      [] key = "valid"     -> [w3 |-> w3, chain_id |-> chain_id, account |-> SignerAddress, pc |-> "load"]
      [] key = "malformed" -> [w3 |-> w3, chain_id |-> chain_id, account |-> None, pc |-> "raised"]

\* the handler of a malformed key dropping only the signer
AfterKey_KeepsClient(key) ==
    CASE key = "unset"     -> [w3 |-> w3, chain_id |-> chain_id, account |-> None, pc |-> "load"]
      [] key = "valid"     -> [w3 |-> w3, chain_id |-> chain_id, account |-> SignerAddress, pc |-> "load"]
      [] key = "malformed" -> [w3 |-> w3, chain_id |-> chain_id, account |-> None, pc |-> "load"]

\* the service fields after the private key is read, and where __init__ goes on;
\* a malformed key ends in except Exception
AfterKey(key) ==
    CASE key = "unset"     -> [w3 |-> w3, chain_id |-> chain_id, account |-> None, pc |-> "load"]
      [] key = "valid"     -> [w3 |-> w3, chain_id |-> chain_id, account |-> SignerAddress, pc |-> "load"]
      [] key = "malformed" -> [w3 |-> None, chain_id |-> Nothing, account |-> None, pc |-> "load"]

\* _initialize_web3: the private key
InitKey ==
    /\ init_pc = "key"
    /\ LET s == AfterKey(environ.BLOCKCHAIN_PRIVATE_KEY)
       IN  w3' = s.w3 /\ chain_id' = s.chain_id /\ account' = s.account /\ init_pc' = s.pc
    /\ UNCHANGED <<environ, reachable, node, contracts, current_network, singleton, store, tickets, frame>>

\* is_connected answering from the handle kept at startup, without a probe
is_connected_Cached == w3 # None

\* is_connected()
is_connected == IF w3 = None THEN FALSE ELSE reachable

\* whether _load_contracts' loop body stores a handle for contract c
Loadable(c) ==
    /\ environ.artifact[c] = "valid"
    /\ environ.address[c] = "valid"

\* the contracts in the order _load_contracts goes through them
LoadOrder == <<"EventContract", "PaymentProcessor", "TicketNFT">>

\* _load_contracts giving up at the first contract it cannot load
LoadContracts_StopAtFirstFailure ==
    IF is_connected
       THEN {LoadOrder[i] : i \in {k \in 1..3 : \A j \in 1..k : Loadable(LoadOrder[j])}}
       ELSE {}

\* _load_contracts without its liveness test
LoadContracts_Unprobed == {c \in ContractNames : Loadable(c)}

\* the keys of self.contracts after _load_contracts
LoadContracts == IF is_connected THEN {c \in ContractNames : Loadable(c)} ELSE {}

\* _load_contracts
InitLoad ==
    /\ init_pc = "load"
    /\ contracts' = LoadContracts
    /\ init_pc' = "ready"
    /\ _blockchain_service' = Some(instances)     \* _blockchain_service = BlockchainService()
    /\ UNCHANGED <<environ, reachable, node, w3, account, chain_id, current_network, instances, store, tickets, frame>>

Construct == InitImport \/ InitProbe \/ InitChainId \/ InitKey \/ InitLoad

----------------------------------------------------------------------------
(* Requests: what callers pass *)

EventIds  == {1, 2}
Wallets   == {"0xA", "0xB"}
Addresses == Wallets \cup {"not-an-address"}
UserIds   == {1, 2}
TxHashes  == {"0x1a", "0xzz"}
\* the readings of time.time(): seconds and millionths of a second
Times     == {[seconds |-> 1000, micros |-> 0], [seconds |-> 1000, micros |-> 250000]}

\* the contract names callers ask for
RequestedNames == ContractNames \cup {"Marketplace"}

\* to_checksum_address accepts the address
IsAddress(a) == a \in Wallets

\* to_bytes(hexstr=h) accepts the hash
IsHex(h) == h = "0x1a"

\* to_wei(amount, 'ether'): the amount in base units, 10^18 per ether;
\* amounts are counted in thousandths of an ether, base units in 10^15
ToWei(milli_ether) == [e15 |-> milli_ether]

\* from_wei(wei, 'ether'), in thousandths of an ether
FromWei(wei) == wei.e15

\* the keyword arguments callers of send_transaction pass
KwargChoices ==
    { NoKwargs,
      [NoKwargs EXCEPT !.gas = Some(90000)],
      [NoKwargs EXCEPT !.gas = Some(0)],
      [NoKwargs EXCEPT !.value = Some(ToWei(5)), !.nonce = Some(7)],
      [NoKwargs EXCEPT !.gas = Some(90000), !.gasPrice = Some(33), !.chainId = Some(5)] }

\* the gas estimate_gas falls back to
DefaultGas == 21000

----------------------------------------------------------------------------
(* Transaction Executor *)

Ready(t) == init_pc = "ready" /\ frame[t].pc = "done"

\* the steps of send_transaction that follow its signer check
SendSteps == {"get_contract", "gas_price", "get_transaction_count", "build_transaction",
              "estimate_gas", "sign_transaction", "send_raw_transaction"}

SendPcs == {"gas_price", "get_transaction_count", "build_transaction", "estimate_gas",
            "send_raw_transaction"}

\* the positions of a call that may still submit a transaction
WritePcs == SendPcs \cup {"register.is_connected"}

\* the submissions the node received from thread t, and its call that may still submit
Submissions(t) ==
    Cardinality({i \in DOMAIN node.received : node.received[i].by = t})
        + (IF frame[t].pc \in WritePcs THEN 1 ELSE 0)

\* get_contract without its membership test
get_contract_Unchecked(name) == Return(name)

\* get_contract(name): the handle, or the error raised
get_contract(name) ==
    IF name \notin contracts THEN Raise("NotLoaded") ELSE Return(name)

\* send_transaction looking the contract up before it checks the signer
SendEntry_LookupFirst(f, name, fn, kwargs) ==
    LET g == [f EXCEPT !.send = [contract_name |-> name, function_name |-> fn, kwargs |-> kwargs]]
    IN  IF name \notin contracts
           THEN Finish(Did(g, "get_contract"), Raise("NotLoaded"))
           ELSE IF account = None
                   THEN Finish(Did(g, "get_contract"), Raise("NoSigner"))
                   ELSE Goto(Did(g, "get_contract"), "gas_price")

\* send_transaction up to its first network operation
SendEntry(f, name, fn, kwargs) ==
    LET g == [f EXCEPT !.send = [contract_name |-> name, function_name |-> fn, kwargs |-> kwargs]]
    IN  IF account = None
           THEN Finish(g, Raise("NoSigner"))
           ELSE IF get_contract(name).kind = "raise"
                   THEN Finish(Did(g, "get_contract"), get_contract(name))
                   ELSE Goto(Did(g, "get_contract"), "gas_price")

Others == <<environ, reachable, node, init_pc, service, singleton, store, tickets>>

\* send_transaction(contract_name, function_name, **kwargs)
CallSendTransaction(t) ==
    /\ Ready(t)
    /\ Submissions(t) < MaxTx
    /\ \E name \in RequestedNames, kwargs \in KwargChoices :
          frame' = [frame EXCEPT ![t] =
                       SendEntry(Enter("send_transaction", <<name>>), name, "fn", kwargs)]
    /\ UNCHANGED Others

\* 'gasPrice': self.w3.eth.gas_price
StepGasPrice(t) ==
    /\ frame[t].pc = "gas_price"
    /\ LET f == Did(frame[t], "gas_price")
       IN  frame' = [frame EXCEPT ![t] =
              IF reachable
                 THEN Goto([f EXCEPT !.tx.gasPrice = Some(node.gas_price)], "get_transaction_count")
                 ELSE Finish(f, Raise("ConnectionError"))]
    /\ UNCHANGED Others

\* the value given for a key, the default when the key is not given
Override(given, default) == IF given # Nothing THEN given ELSE default

\* the envelope with the defaults written after the caller's values
BuildTransaction_DefaultsLast(gasPrice, nonce, kwargs) ==
    [from     |-> account,
     chainId  |-> chain_id,
     gasPrice |-> gasPrice,
     nonce    |-> nonce,
     gas      |-> kwargs.gas,
     value    |-> Override(kwargs.value, Some(ToWei(0)))]

\* the dictionary given to build_transaction: the four defaults, then **kwargs
\* over them; build_transaction adds value 0 when no value is given
BuildTransaction(gasPrice, nonce, kwargs) ==
    [from     |-> account,
     chainId  |-> Override(kwargs.chainId, chain_id),
     gasPrice |-> Override(kwargs.gasPrice, gasPrice),
     nonce    |-> Override(kwargs.nonce, nonce),
     gas      |-> kwargs.gas,
     value    |-> Override(kwargs.value, Some(ToWei(0)))]

\* the transaction count read, counting the sends in flight as well
NonceRead_Reserving(t) ==
    Some(node.count + Cardinality({u \in Threads \ {t} :
            frame[u].pc \in {"build_transaction", "estimate_gas", "send_raw_transaction"}}))

\* self.w3.eth.get_transaction_count(self.account.address)
NonceRead(t) == Some(node.count)

\* 'nonce': self.w3.eth.get_transaction_count(...), then the dictionary is
\* handed to build_transaction
StepNonce(t) ==
    /\ frame[t].pc = "get_transaction_count"
    /\ LET f  == Did(frame[t], "get_transaction_count")
           tx == BuildTransaction(f.tx.gasPrice, NonceRead(t), f.send.kwargs)
       IN  frame' = [frame EXCEPT ![t] =
              IF ~reachable
                 THEN Finish(f, Raise("ConnectionError"))
                 ELSE IF tx.gas = Nothing
                         THEN Goto([f EXCEPT !.tx = tx], "build_transaction")
                         ELSE IF tx.gas = Some(0)
                                 THEN Goto([f EXCEPT !.tx = tx], "estimate_gas")
                                 ELSE Goto([f EXCEPT !.tx = tx], "send_raw_transaction")]
    /\ UNCHANGED Others

\* build_transaction on a dictionary without 'gas': web3 fills the key in with
\* w3.eth.estimate_gas(transaction) (fill_transaction_defaults), whose failure
\* is raised to send_transaction
StepBuildEstimate(t) ==
    /\ frame[t].pc = "build_transaction"
    /\ LET f == Did(frame[t], "build_transaction")
       IN  \E ok \in BOOLEAN :
             frame' = [frame EXCEPT ![t] =
                IF ~reachable
                   THEN Finish(f, Raise("ConnectionError"))
                   ELSE IF ok THEN Goto([f EXCEPT !.tx.gas = Some(node.estimate)],
                                        "send_raw_transaction")
                              ELSE Finish(f, Raise("ContractLogicError"))]
    /\ UNCHANGED Others

\* estimate_gas(transaction): the node's estimate, 21000 when the estimation fails
estimate_gas(ok) == IF reachable /\ ok THEN node.estimate ELSE DefaultGas

\* if 'gas' not in transaction or not transaction['gas']:
\*     transaction['gas'] = self.estimate_gas(transaction)
StepEstimate(t) ==
    /\ frame[t].pc = "estimate_gas"
    /\ \E ok \in BOOLEAN :
          frame' = [frame EXCEPT ![t] =
              Goto([Did(frame[t], "estimate_gas") EXCEPT !.tx.gas = Some(estimate_gas(ok))],
                   "send_raw_transaction")]
    /\ UNCHANGED Others

\* tx_hash.hex() of a submitted transaction
TxHash(tx) == [hash_of |-> tx]

\* send_transaction answering None when the submission failed
Submitted_Swallowed(f, error) ==
    IF error = None THEN Finish(f, Return(TxHash(f.tx)))
                    ELSE Finish(f, Return(None))

\* send_transaction after send_raw_transaction: the hash, or the error raised again
Submitted(f, error) ==
    IF error = None THEN Finish(f, Return(TxHash(f.tx)))
                    ELSE Finish(f, Raise(error))

\* sign_transaction, then send_raw_transaction
StepSubmit(t) ==
    /\ frame[t].pc = "send_raw_transaction"
    /\ LET f == Did(Did(frame[t], "sign_transaction"), "send_raw_transaction")
       IN  \E accepted \in BOOLEAN :
             IF reachable
                THEN /\ node' = [node EXCEPT
                            !.received = Append(@, [nonce |-> f.tx.nonce, by |-> t, accepted |-> accepted]),
                            !.count = IF accepted THEN @ + 1 ELSE @]
                     /\ frame' = [frame EXCEPT ![t] =
                            Submitted(f, IF accepted THEN None ELSE "Rejected")]
                ELSE /\ accepted
                     /\ frame' = [frame EXCEPT ![t] = Submitted(f, "ConnectionError")]
                     /\ UNCHANGED node
    /\ UNCHANGED <<environ, reachable, init_pc, service, singleton, store, tickets>>

\* the frame of a read of contract name, up to its network operation
CallEntry(f, name, fn) ==
    LET g == [f EXCEPT !.send = [contract_name |-> name, function_name |-> fn, kwargs |-> NoKwargs]]
    IN  IF get_contract(name).kind = "raise"
           THEN Finish(Did(g, "get_contract"), get_contract(name))
           ELSE Goto(Did(g, "get_contract"), "call")

\* call_function(contract_name, function_name)
CallCallFunction(t) ==
    /\ Ready(t)
    /\ \E name \in RequestedNames :
          frame' = [frame EXCEPT ![t] = CallEntry(Enter("call_function", <<name>>), name, "fn")]
    /\ UNCHANGED Others

\* the tuple getEvent returns for an event of the chain
ChainEvent == <<"title", 1700000000, ToWei(10), 100, SignerAddress, TRUE>>

\* get_event: the record built from the tuple the contract returns
ParseEvent(event_id, result) ==
    [id |-> event_id, title |-> result[1], startDate |-> result[2],
     ticketPrice |-> FromWei(result[3]), capacity |-> result[4],
     organizer |-> result[5], isActive |-> result[6]]

\* what call_function's caller gets from the value the contract call returned
CallResult(f) ==
    IF f.op = "get_event" THEN ParseEvent(f.args[1], ChainEvent) ELSE ChainEvent

\* contract_function(*args).call()
StepCall(t) ==
    /\ frame[t].pc = "call"
    /\ LET f == Did(frame[t], "call")
       IN  \E ok \in BOOLEAN :
             frame' = [frame EXCEPT ![t] =
                IF ~reachable
                   THEN Finish(f, Raise("ConnectionError"))
                   ELSE IF ok THEN Finish(f, Return(CallResult(f)))
                              ELSE Finish(f, Raise("ContractLogicError"))]
    /\ UNCHANGED Others

\* get_event(event_id)
CallGetEvent(t) ==
    /\ Ready(t)
    /\ \E event_id \in EventIds :
          frame' = [frame EXCEPT ![t] =
                       CallEntry(Enter("get_event", <<event_id>>), "EventContract", "getEvent")]
    /\ UNCHANGED Others

----------------------------------------------------------------------------
(* Connectivity and balance *)

\* is_connected()
CallIsConnected(t) ==
    /\ Ready(t)
    /\ frame' = [frame EXCEPT ![t] =
          IF w3 = None
             THEN Finish(Enter("is_connected", <<>>), Return(FALSE))
             ELSE Goto(Enter("is_connected", <<>>), "is_connected")]
    /\ UNCHANGED Others

\* return self.w3.is_connected()
StepIsConnected(t) ==
    /\ frame[t].pc = "is_connected"
    /\ frame' = [frame EXCEPT ![t] = Finish(Did(frame[t], "is_connected"), Return(is_connected))]
    /\ UNCHANGED Others

----------------------------------------------------------------------------
(* wait_for_transaction *)

\* the receipt returned without asking the network
DummyReceipt(tx_hash) ==
    [transactionHash |-> tx_hash, status |-> 1, blockNumber |-> 1, gasUsed |-> 21000,
     from |-> "0x0000000000000000000000000000000000000000",
     to   |-> "0x0000000000000000000000000000000000000000"]

\* the receipt returned when the wait failed and the connection is gone
FailedReceipt(tx_hash, error) ==
    [transactionHash |-> tx_hash, status |-> 0, blockNumber |-> 0, gasUsed |-> 0,
     error |-> error]

\* a receipt of the chain
ChainReceipt(tx_hash, status) ==
    [transactionHash |-> tx_hash, status |-> status, blockNumber |-> 12, gasUsed |-> node.estimate,
     from |-> SignerAddress, to |-> "0xContract"]

\* wait_for_transaction without its offline shortcut
AfterWaitProbe_AlwaysPoll(f, live) ==
    IF IsHex(f.args[1])
       THEN Goto(f, "wait_for_transaction_receipt")
       ELSE Goto([f EXCEPT !.exc = "ValueError"], "wait.except")

\* wait_for_transaction answering the failed receipt when its first probe
\* finds the connection not live
AfterWaitProbe_FailedOffline(f, live) ==
    IF ~live
       THEN Finish(f, Return(FailedReceipt(f.args[1], "ConnectionError")))
       ELSE IF IsHex(f.args[1])
               THEN Goto(f, "wait_for_transaction_receipt")
               ELSE Goto([f EXCEPT !.exc = "ValueError"], "wait.except")

\* the frame after the first liveness probe of wait_for_transaction
AfterWaitProbe(f, live) ==
    IF ~live
       THEN Finish(f, Return(DummyReceipt(f.args[1])))
       ELSE IF IsHex(f.args[1])
               THEN Goto(f, "wait_for_transaction_receipt")
               ELSE Goto([f EXCEPT !.exc = "ValueError"], "wait.except")

\* wait_for_transaction(tx_hash): if not self.is_connected()
CallWaitForTransaction(t) ==
    /\ Ready(t)
    /\ \E tx_hash \in TxHashes :
          LET f == Enter("wait_for_transaction", <<tx_hash>>)
          IN  frame' = [frame EXCEPT ![t] =
                 IF w3 = None
                    THEN AfterWaitProbe(f, FALSE)
                    ELSE Goto(f, "wait.is_connected")]
    /\ UNCHANGED Others

\* self.w3.is_connected() of the first probe
StepWaitProbe(t) ==
    /\ frame[t].pc = "wait.is_connected"
    /\ frame' = [frame EXCEPT ![t] = AfterWaitProbe(Did(frame[t], "is_connected"), is_connected)]
    /\ UNCHANGED Others

\* self.w3.eth.wait_for_transaction_receipt(...)
StepWaitReceipt(t) ==
    /\ frame[t].pc = "wait_for_transaction_receipt"
    /\ LET f == Did(frame[t], "wait_for_transaction_receipt")
       IN  \E outcome \in {"mined", "reverted", "timeout"} :
             frame' = [frame EXCEPT ![t] =
                IF ~reachable
                   THEN Goto([f EXCEPT !.exc = "ConnectionError"], "wait.except")
                   ELSE CASE outcome = "mined"    -> Finish(f, Return(ChainReceipt(f.args[1], 1)))
                          [] outcome = "reverted" -> Finish(f, Return(ChainReceipt(f.args[1], 0)))
                          [] outcome = "timeout"  -> Goto([f EXCEPT !.exc = "TimeExhausted"], "wait.except")]
    /\ UNCHANGED Others

\* the except clause swallowing the exception whatever the probe says
WaitExcept_Swallow(f, live) == Finish(f, Return(FailedReceipt(f.args[1], f.exc)))

\* the except clause of wait_for_transaction, given its liveness probe
WaitExcept(f, live) ==
    IF ~live
       THEN Finish(f, Return(FailedReceipt(f.args[1], f.exc)))
       ELSE Finish(f, Raise(f.exc))

\* except Exception: if not self.is_connected(): ...; raise
StepWaitExcept(t) ==
    /\ frame[t].pc = "wait.except"
    /\ frame' = [frame EXCEPT ![t] = WaitExcept(Did(frame[t], "is_connected"), is_connected)]
    /\ UNCHANGED Others

\* the balance the node holds for an address
NodeBalance(address) == ToWei(IF address = "0xA" THEN 1500 ELSE 0)

\* get_account_balance letting the failure out
BalanceFailed_Raised(f) == Finish(f, Raise("Exception"))

\* except Exception: return 0.0
BalanceFailed(f) == Finish(f, Return(0))

\* get_account_balance(address)
CallGetAccountBalance(t) ==
    /\ Ready(t)
    /\ \E address \in Addresses :
          LET f == Enter("get_account_balance", <<address>>)
          IN  frame' = [frame EXCEPT ![t] =
                 IF w3 = None \/ ~IsAddress(address)
                    THEN BalanceFailed(f)
                    ELSE Goto(f, "get_balance")]
    /\ UNCHANGED Others

\* self.w3.eth.get_balance(...)
StepGetBalance(t) ==
    /\ frame[t].pc = "get_balance"
    /\ LET f == Did(frame[t], "get_balance")
       IN  frame' = [frame EXCEPT ![t] =
              IF reachable THEN Finish(f, Return(FromWei(NodeBalance(f.args[1]))))
                           ELSE BalanceFailed(f)]
    /\ UNCHANGED Others

----------------------------------------------------------------------------
(* hashlib.sha256, as register_for_event calls it (FIPS 180-4).  A 32-bit   *)
(* word is <<high half, low half>>, each half in 0..65535; a message is a   *)
(* sequence of bytes; a str is a sequence of one-character strings.         *)

Pow2 == [n \in 0..16 |-> CASE n = 0 -> 1 [] n = 1 -> 2 [] n = 2 -> 4 [] n = 3 -> 8
                           [] n = 4 -> 16 [] n = 5 -> 32 [] n = 6 -> 64 [] n = 7 -> 128
                           [] n = 8 -> 256 [] n = 9 -> 512 [] n = 10 -> 1024
                           [] n = 11 -> 2048 [] n = 12 -> 4096 [] n = 13 -> 8192
                           [] n = 14 -> 16384 [] n = 15 -> 32768 [] n = 16 -> 65536]

RECURSIVE BitwiseOf(_, _, _, _)
\* the bitwise combination, by the truth table op, of the n low bits of a and b
BitwiseOf(op, a, b, n) ==
    IF n = 0 THEN 0
    ELSE op[a % 2][b % 2] + 2 * BitwiseOf(op, a \div 2, b \div 2, n - 1)

XorBit == [x \in 0..1 |-> [y \in 0..1 |-> (x + y) % 2]]
AndBit == [x \in 0..1 |-> [y \in 0..1 |-> x * y]]

\* the tables of the two operations on 4-bit values
XorNibble == [a \in 0..15 |-> [b \in 0..15 |-> BitwiseOf(XorBit, a, b, 4)]]
AndNibble == [a \in 0..15 |-> [b \in 0..15 |-> BitwiseOf(AndBit, a, b, 4)]]

\* the operation of a nibble table on 16-bit values
Half(table, a, b) ==
      table[a \div 4096][b \div 4096] * 4096
    + table[(a \div 256) % 16][(b \div 256) % 16] * 256
    + table[(a \div 16) % 16][(b \div 16) % 16] * 16
    + table[a % 16][b % 16]

Xor(x, y) == <<Half(XorNibble, x[1], y[1]), Half(XorNibble, x[2], y[2])>>
And(x, y) == <<Half(AndNibble, x[1], y[1]), Half(AndNibble, x[2], y[2])>>
Not(x)    == <<65535 - x[1], 65535 - x[2]>>

\* addition modulo 2^32
Add(x, y) ==
    <<(x[1] + y[1] + ((x[2] + y[2]) \div 65536)) % 65536, (x[2] + y[2]) % 65536>>

\* rotation and shift to the right by n bits, 0 < n < 32
Rotr(x, n) ==
    LET hi == IF n < 16 THEN x[1] ELSE x[2]
        lo == IF n < 16 THEN x[2] ELSE x[1]
        m  == n % 16
    IN  <<(hi \div Pow2[m]) + (lo % Pow2[m]) * Pow2[16 - m],
          (lo \div Pow2[m]) + (hi % Pow2[m]) * Pow2[16 - m]>>

Shr(x, n) == <<x[1] \div Pow2[n], (x[2] \div Pow2[n]) + (x[1] % Pow2[n]) * Pow2[16 - n]>>

Sha256K ==
    <<
       <<17034, 12184>>, <<28983, 17553>>, <<46528, 64463>>, <<59829, 56229>>,
       <<14678, 49755>>, <<23025, 4593>>, <<37439, 33444>>, <<43804, 24277>>,
       <<55303, 43672>>, <<4739, 23297>>, <<9265, 34238>>, <<21772, 32195>>,
       <<29374, 23924>>, <<32990, 45566>>, <<39900, 1703>>, <<49563, 61812>>,
       <<58523, 27073>>, <<61374, 18310>>, <<4033, 40390>>, <<9228, 41420>>,
       <<11753, 11375>>, <<19060, 33962>>, <<23728, 43484>>, <<30457, 35034>>,
       <<38974, 20818>>, <<43057, 50797>>, <<45059, 10184>>, <<48985, 32711>>,
       <<50912, 3059>>, <<54695, 37191>>, <<1738, 25425>>, <<5161, 10599>>,
       <<10167, 2693>>, <<11803, 8504>>, <<19756, 28156>>, <<21304, 3347>>,
       <<25866, 29524>>, <<30314, 2747>>, <<33218, 51502>>, <<37490, 11397>>,
       <<41663, 59553>>, <<43034, 26187>>, <<49739, 35696>>, <<51052, 20899>>,
       <<53650, 59417>>, <<54937, 1572>>, <<62478, 13701>>, <<4202, 41072>>,
       <<6564, 49430>>, <<7735, 27656>>, <<10056, 30540>>, <<13488, 48309>>,
       <<14620, 3251>>, <<20184, 43594>>, <<23452, 51791>>, <<26670, 28659>>,
       <<29839, 33518>>, <<30885, 25455>>, <<33992, 30740>>, <<36039, 520>>,
       <<37054, 65530>>, <<42064, 27883>>, <<48889, 41975>>, <<50801, 30962>>
    >>

Sha256H0 ==
    <<
       <<27145, 58983>>, <<47975, 44677>>, <<15470, 62322>>, <<42319, 62778>>,
       <<20750, 21119>>, <<39685, 26764>>, <<8067, 55723>>, <<23520, 52505>>
    >>

\* the message padded to a multiple of 64 bytes: 0x80, zeros, the bit length
\* on 8 bytes (messages stay under 8192 bytes)
Sha256Pad(msg) ==
    LET n     == Len(msg)
        zeros == (119 - (n % 64)) % 64
        bits  == n * 8
    IN  msg \o <<128>> \o [i \in 1..zeros |-> 0]
            \o <<0, 0, 0, 0, 0, 0, bits \div 256, bits % 256>>

\* the 32-bit word of the four bytes of bytes from position i
WordAt(bytes, i) == <<bytes[i] * 256 + bytes[i + 1], bytes[i + 2] * 256 + bytes[i + 3]>>

SmallSigma0(x) == Xor(Xor(Rotr(x, 7), Rotr(x, 18)), Shr(x, 3))
SmallSigma1(x) == Xor(Xor(Rotr(x, 17), Rotr(x, 19)), Shr(x, 10))
BigSigma0(x)   == Xor(Xor(Rotr(x, 2), Rotr(x, 13)), Rotr(x, 22))
BigSigma1(x)   == Xor(Xor(Rotr(x, 6), Rotr(x, 11)), Rotr(x, 25))
Ch(x, y, z)    == Xor(And(x, y), And(Not(x), z))
Maj(x, y, z)   == Xor(Xor(And(x, y), And(x, z)), And(y, z))

RECURSIVE Sha256Schedule(_)
\* the message schedule of a block, from its first sixteen words
Sha256Schedule(w) ==
    IF Len(w) = 64 THEN w
    ELSE LET t == Len(w) + 1
         IN  Sha256Schedule(Append(w,
                 Add(Add(SmallSigma1(w[t - 2]), w[t - 7]),
                     Add(SmallSigma0(w[t - 15]), w[t - 16]))))

\* one round on the working variables <<a, b, c, d, e, f, g, h>>
Sha256Round(v, k, w) ==
    LET t1 == Add(Add(Add(v[8], BigSigma1(v[5])), Add(Ch(v[5], v[6], v[7]), k)), w)
        t2 == Add(BigSigma0(v[1]), Maj(v[1], v[2], v[3]))
    IN  <<Add(t1, t2), v[1], v[2], v[3], Add(v[4], t1), v[5], v[6], v[7]>>

RECURSIVE Sha256Rounds(_, _, _)
\* the working variables after rounds t..64; the test on Len(v) has each
\* round evaluated before the next one starts
Sha256Rounds(v, w, t) ==
    IF t > 64 \/ Len(v) # 8 THEN v
    ELSE Sha256Rounds(Sha256Round(v, Sha256K[t], w[t]), w, t + 1)

\* the hash value after the block of padded that starts at byte position at
Sha256Block(h, padded, at) ==
    LET w == Sha256Schedule([i \in 1..16 |-> WordAt(padded, at + 4 * (i - 1))])
        v == Sha256Rounds(h, w, 1)
    IN  [i \in 1..8 |-> Add(h[i], v[i])]

RECURSIVE Sha256Blocks(_, _, _)
Sha256Blocks(h, padded, at) ==
    IF at > Len(padded) THEN h
    ELSE Sha256Blocks(Sha256Block(h, padded, at), padded, at + 64)

HexDigits == <<"0", "1", "2", "3", "4", "5", "6", "7", "8", "9", "a", "b", "c", "d", "e", "f">>

\* the four hexadecimal characters of a 16-bit value
HexOfHalf(a) ==
    <<HexDigits[(a \div 4096) + 1], HexDigits[((a \div 256) % 16) + 1],
      HexDigits[((a \div 16) % 16) + 1], HexDigits[(a % 16) + 1]>>

RECURSIVE Flatten(_)
Flatten(seqs) == IF seqs = <<>> THEN <<>> ELSE Head(seqs) \o Flatten(Tail(seqs))

\* hashlib.sha256(msg).hexdigest(): the characters of the digest
Sha256HexDigest(msg) ==
    LET h == Sha256Blocks(Sha256H0, Sha256Pad(msg), 1)
    IN  Flatten([i \in 1..8 |-> HexOfHalf(h[i][1]) \o HexOfHalf(h[i][2])])

\* the characters of the strings callers pass as wallet addresses
Characters == [w \in Wallets |-> IF w = "0xA" THEN <<"0", "x", "A">> ELSE <<"0", "x", "B">>]

\* ord(c) of the characters that occur in the hashed string
Ord == [c \in {"0", "1", "2", "3", "4", "5", "6", "7", "8", "9", ".", "x", "A", "B"} |->
          CASE c = "." -> 46 [] c = "x" -> 120 [] c = "A" -> 65 [] c = "B" -> 66
            [] c = "0" -> 48 [] c = "1" -> 49 [] c = "2" -> 50 [] c = "3" -> 51
            [] c = "4" -> 52 [] c = "5" -> 53 [] c = "6" -> 54 [] c = "7" -> 55
            [] c = "8" -> 56 [] c = "9" -> 57]

\* str.encode(): the UTF-8 bytes of a string of ASCII characters
Encode(str) == [i \in 1..Len(str) |-> Ord[str[i]]]

RECURSIVE StrInt(_)
\* str(n) of a natural number
StrInt(n) ==
    IF n < 10 THEN <<HexDigits[n + 1]>>
    ELSE StrInt(n \div 10) \o <<HexDigits[(n % 10) + 1]>>

RECURSIVE Digits(_, _)
\* n on exactly width decimal digits
Digits(n, width) ==
    IF width = 0 THEN <<>> ELSE Digits(n \div 10, width - 1) \o <<HexDigits[(n % 10) + 1]>>

RECURSIVE StrFraction(_, _)
\* the digits str(float) prints after the point for micros, a number of
\* 10^-width: trailing zeros dropped, one digit at least
StrFraction(micros, width) ==
    IF width > 1 /\ micros % 10 = 0 THEN StrFraction(micros \div 10, width - 1)
    ELSE Digits(micros, width)

\* str(time.time()) of a clock reading
StrFloat(now) == StrInt(now.seconds) \o <<".">> \o StrFraction(now.micros, 6)

----------------------------------------------------------------------------
(* Domain operations *)

\* the string register_for_event hashes, without the clock reading
DummyData_NoTime(event_id, wallet_address, now) ==
    StrInt(event_id) \o Characters[wallet_address]

\* dummy_data = f"{event_id}{wallet_address}{time.time()}"
DummyData(event_id, wallet_address, now) ==
    StrInt(event_id) \o Characters[wallet_address] \o StrFloat(now)

\* f"0x{dummy_hash[:64]}" for every request, computed once
DummyHashes ==
    [event_id \in EventIds, wallet_address \in Wallets, now \in Times |->
        <<"0", "x">> \o SubSeq(Sha256HexDigest(Encode(DummyData(event_id, wallet_address, now))), 1, 64)]

\* the string register_for_event returns when the connection is not live
DummyHash(event_id, wallet_address, now) == DummyHashes[event_id, wallet_address, now]

\* create_event(title, start_date, ticket_price, capacity)
CallCreateEvent(t) ==
    /\ Ready(t)
    /\ Submissions(t) < MaxTx
    /\ LET f == Enter("create_event", <<"title", 1700000000, 10, 100>>)
       IN  frame' = [frame EXCEPT ![t] =
              IF w3 = None
                 THEN Finish(f, Raise("AttributeError"))     \* self.w3.to_wei
                 ELSE SendEntry(f, "EventContract", "createEvent", NoKwargs)]
    /\ UNCHANGED Others

\* process_payment(event_id, amount, payer_address, organizer_address)
CallProcessPayment(t) ==
    /\ Ready(t)
    /\ Submissions(t) < MaxTx
    /\ \E payer \in Addresses :
          LET f == Enter("process_payment", <<1, 10, payer, "0xB">>)
          IN  frame' = [frame EXCEPT ![t] =
                 IF w3 = None
                    THEN Finish(f, Raise("AttributeError"))  \* self.w3.to_wei
                    ELSE IF ~IsAddress(payer)
                            THEN Finish(f, Raise("InvalidAddress"))
                            ELSE SendEntry(f, "PaymentProcessor", "testProcessPayment",
                                           [NoKwargs EXCEPT !.value = Some(ToWei(10))])]
    /\ UNCHANGED Others

\* register_for_event without its offline placeholder
Register_NoPlaceholder(f, live, now) ==
    SendEntry(f, "EventContract", "registerForEvent",
              [NoKwargs EXCEPT !.value = Some(ToWei(f.args[3]))])

\* register_for_event asking for the signer before it answers a placeholder
Register_NeedsSigner(f, live, now) ==
    IF account = None
       THEN Finish(f, Raise("NoSigner"))
       ELSE IF ~live
               THEN Finish([f EXCEPT !.time = Some(now)],
                           Return(DummyHash(f.args[1], f.args[2], now)))
               ELSE SendEntry(f, "EventContract", "registerForEvent",
                              [NoKwargs EXCEPT !.value = Some(ToWei(f.args[3]))])

\* register_for_event past its liveness probe, at time now
Register(f, live, now) ==
    IF ~live
       THEN Finish([f EXCEPT !.time = Some(now)],
                   Return(DummyHash(f.args[1], f.args[2], now)))
       ELSE SendEntry(f, "EventContract", "registerForEvent",
                      [NoKwargs EXCEPT !.value = Some(ToWei(f.args[3]))])

\* register_for_event(event_id, wallet_address, ticket_price, organizer_address)
CallRegisterForEvent(t) ==
    /\ Ready(t)
    /\ Submissions(t) < MaxTx
    /\ \E event_id \in EventIds, wallet \in Wallets, now \in Times :
          LET f == Enter("register_for_event", <<event_id, wallet, 10, "0xB">>)
          IN  frame' = [frame EXCEPT ![t] =
                 IF w3 = None THEN Register(f, FALSE, now)
                              ELSE Goto(f, "register.is_connected")]
    /\ UNCHANGED Others

\* self.w3.is_connected() of register_for_event
StepRegisterProbe(t) ==
    /\ frame[t].pc = "register.is_connected"
    /\ \E now \in Times :
          frame' = [frame EXCEPT ![t] = Register(Did(frame[t], "is_connected"), is_connected, now)]
    /\ UNCHANGED Others

\* mint_ticket(to_address, event_id, ticket_uri)
CallMintTicket(t) ==
    /\ Ready(t)
    /\ Submissions(t) < MaxTx
    /\ frame' = [frame EXCEPT ![t] =
          SendEntry(Enter("mint_ticket", <<"0xA", 1, "ipfs://ticket">>),
                    "TicketNFT", "mintTicket", NoKwargs)]
    /\ UNCHANGED Others

\* transfer_ticket(from_address, to_address, token_id)
CallTransferTicket(t) ==
    /\ Ready(t)
    /\ Submissions(t) < MaxTx
    /\ frame' = [frame EXCEPT ![t] =
          SendEntry(Enter("transfer_ticket", <<"0xA", "0xB", 1>>),
                    "TicketNFT", "transferFrom", NoKwargs)]
    /\ UNCHANGED Others

----------------------------------------------------------------------------
(* NFT / ticket query facade *)

\* _get_explorer_url testing the token id for truth, not for None
get_explorer_url_Truthy(contract_address, token_id) ==
    LET explorer_url == IF current_network \in DOMAIN NETWORKS
                           THEN NETWORKS[current_network].block_explorer
                           ELSE ""
    IN  IF explorer_url \in {None, ""}
           THEN Nothing
           ELSE IF token_id # Nothing /\ token_id # Some(0)
                   THEN <<explorer_url, "/token/", contract_address, "?a=", token_id[1]>>
                   ELSE <<explorer_url, "/address/", contract_address>>

\* _get_explorer_url(contract_address, token_id): the parts of the URL in order,
\* or <<>> for None
get_explorer_url(contract_address, token_id) ==
    LET explorer_url == IF current_network \in DOMAIN NETWORKS
                           THEN NETWORKS[current_network].block_explorer
                           ELSE ""
    IN  IF explorer_url \in {None, ""}
           THEN Nothing
           ELSE IF token_id # Nothing
                   THEN <<explorer_url, "/token/", contract_address, "?a=", token_id[1]>>
                   ELSE <<explorer_url, "/address/", contract_address>>

\* _load_contract(contract_address, contract_type): <<a handle>>, or <<>> for None
load_contract(contract_address, contract_type) ==
    IF w3 = None THEN Nothing
    ELSE IF environ.artifact[contract_type] # "valid" THEN Nothing
    ELSE IF ~IsAddress(contract_address) THEN Nothing
    ELSE Some([address |-> contract_address, abi |-> contract_type])

\* what the token of the chain answers to the reads of get_nft_metadata
ChainToken ==
    [tokenURI |-> "ipfs://ticket", ownerOf |-> "0xA", getEventId |-> 1,
     getTicketType |-> "VIP", isTicketUsed |-> FALSE]

\* the metadata record; extension says whether the three extension reads succeeded
Metadata(contract_address, token_id, extension) ==
    [token_id         |-> token_id,
     token_uri        |-> ChainToken.tokenURI,
     owner            |-> ChainToken.ownerOf,
     contract_address |-> contract_address,
     network          |-> current_network,
     chain_id         |-> chain_id,
     event_id         |-> IF extension THEN Some(ChainToken.getEventId) ELSE Nothing,
     ticket_type      |-> IF extension THEN ChainToken.getTicketType ELSE None,
     is_used          |-> IF extension THEN Some(ChainToken.isTicketUsed) ELSE Nothing,
     explorer_url     |-> get_explorer_url(contract_address, Some(token_id))]

\* get_nft_metadata keeping the handle it loaded in self.contracts
CallGetNftMetadata_Caching(t) ==
    /\ Ready(t)
    /\ \E contract_address \in Addresses :
          LET f == Enter("get_nft_metadata", <<contract_address, 1>>)
          IN  /\ frame' = [frame EXCEPT ![t] =
                    IF w3 = None
                       THEN Finish(f, Return([error |-> "Blockchain connection not available"]))
                       ELSE IF load_contract(contract_address, "TicketNFT") = Nothing
                               THEN Finish(Did(f, "_load_contract"), Return([error |-> "Contract not found"]))
                               ELSE Goto(Did(f, "_load_contract"), "tokenURI")]
              /\ contracts' = IF load_contract(contract_address, "TicketNFT") = Nothing
                                 THEN contracts ELSE contracts \cup {"TicketNFT"}
    /\ UNCHANGED <<environ, reachable, node, init_pc, w3, account, chain_id, current_network, singleton, store, tickets>>

\* get_nft_metadata(contract_address, token_id)
CallGetNftMetadata(t) ==
    /\ Ready(t)
    /\ \E contract_address \in Addresses :
          LET f == Enter("get_nft_metadata", <<contract_address, 1>>)
          IN  frame' = [frame EXCEPT ![t] =
                 IF w3 = None
                    THEN Finish(f, Return([error |-> "Blockchain connection not available"]))
                    ELSE IF load_contract(contract_address, "TicketNFT") = Nothing
                            THEN Finish(Did(f, "_load_contract"), Return([error |-> "Contract not found"]))
                            ELSE Goto(Did(f, "_load_contract"), "tokenURI")]
    /\ UNCHANGED Others

\* the reads of get_nft_metadata, in order
NftReads == <<"tokenURI", "ownerOf", "getEventId", "getTicketType", "isTicketUsed">>

\* get_nft_metadata without the inner handler: a failed extension read ends in
\* the outer except like a failed base read
AfterNftRead_ExtensionFatal(f, ok) ==
    LET i == CHOOSE k \in DOMAIN NftReads : NftReads[k] = f.pc
        g == Did(f, f.pc)
    IN  IF ok
           THEN IF i < Len(NftReads)
                   THEN Goto(g, NftReads[i + 1])
                   ELSE Finish(g, Return(Metadata(f.args[1], f.args[2], TRUE)))
           ELSE Finish(g, Return([error |-> "read failed"]))

\* the frame of get_nft_metadata after the read at its position succeeded or failed
AfterNftRead(f, ok) ==
    LET i == CHOOSE k \in DOMAIN NftReads : NftReads[k] = f.pc
        g == Did(f, f.pc)
    IN  IF ok
           THEN IF i < Len(NftReads)
                   THEN Goto(g, NftReads[i + 1])
                   ELSE Finish(g, Return(Metadata(f.args[1], f.args[2], TRUE)))
           ELSE IF i <= 2
                   THEN Finish(g, Return([error |-> "read failed"]))
                   ELSE Finish(g, Return(Metadata(f.args[1], f.args[2], FALSE)))

\* contract.functions.<read>(token_id).call()
StepNftRead(t) ==
    /\ frame[t].pc \in {NftReads[k] : k \in DOMAIN NftReads}
    /\ \E ok \in BOOLEAN :
          frame' = [frame EXCEPT ![t] = AfterNftRead(frame[t], reachable /\ ok)]
    /\ UNCHANGED Others

----------------------------------------------------------------------------
(* blockchain_api.get_user_tickets and the tickets table *)

\* the public methods BlockchainService defines
ServiceMethods ==
    {"get_contract", "is_connected", "get_account_balance", "estimate_gas",
     "send_transaction", "call_function", "wait_for_transaction", "create_event",
     "get_event", "process_payment", "register_for_event", "mint_ticket",
     "transfer_ticket", "get_nft_metadata", "get_nft_transaction_history",
     "get_user_nfts"}

\* Ticket.to_blockchain_format
to_blockchain_format(ticket) ==
    [token_id       |-> ticket.token_id,
     event_id       |-> ticket.event_id,
     event_contract |-> "0x5FbDB2315678afecb367f032d93F642f64180aa3",
     purchaser      |-> ticket.wallet_address,
     purchase_date  |-> ticket.purchase_date.seconds,   \* int(purchase_date.timestamp())
     is_used        |-> ticket.is_used,
     is_active      |-> ticket.is_active,
     seat_info      |-> ticket.seat_info,
     ticket_type    |-> ticket.ticket_type]

\* the query without its user_id filter
TicketsOf_AnyUser(user_id, address) ==
    {ticket \in tickets : ticket.wallet_address = address}

\* Ticket.query.filter_by(user_id=user_id, wallet_address=address).all()
TicketsOf(user_id, address) ==
    {ticket \in tickets : ticket.user_id = user_id /\ ticket.wallet_address = address}

\* [ticket.to_blockchain_format() for ticket in db_tickets]
Formatted(db_tickets) == {to_blockchain_format(ticket) : ticket \in db_tickets}

Response(status, body) == [status |-> status, body |-> body]

\* the except clause of get_user_tickets: the database fallback
TicketsFallback(user_id, address, error, db_ok) ==
    IF db_ok
       THEN Response(200, [tickets |-> Formatted(TicketsOf(user_id, address)),
                           message |-> "Using offline data due to blockchain connection issues",
                           offline_mode |-> TRUE])
       ELSE Response(200, [error |-> error, tickets |-> {}, offline_mode |-> TRUE])

\* the body of the try clause of get_user_tickets once the chain gave its tickets
TicketsAnswer(user_id, address, blockchain_tickets, live) ==
    IF ~live
       THEN Response(200, [tickets |-> Formatted(TicketsOf(user_id, address)),
                           message |-> "Blockchain not connected - showing offline data",
                           offline_mode |-> TRUE])
       ELSE Response(200, [tickets |-> IF blockchain_tickets # {} THEN blockchain_tickets
                                       ELSE Formatted(TicketsOf(user_id, address))])

\* GET /tickets/user/<address> for the user of the token
get_user_tickets(user_id, address, db_ok, db_ok_again) ==
    IF "get_tickets_by_owner" \notin ServiceMethods
       THEN TicketsFallback(user_id, address, "AttributeError", db_ok_again)
       ELSE IF ~db_ok
               THEN TicketsFallback(user_id, address, "OperationalError", db_ok_again)
               ELSE TicketsAnswer(user_id, address, {}, is_connected)

CallGetUserTickets(t) ==
    /\ Ready(t)
    /\ \E user_id \in UserIds, address \in Wallets, db_ok \in BOOLEAN, db_ok_again \in BOOLEAN :
          frame' = [frame EXCEPT ![t] =
             Finish(Did(Enter("get_user_tickets", <<user_id, address>>),
                        IF db_ok_again THEN "Ticket.query" ELSE "Ticket.query failed"),
                    Return(get_user_tickets(user_id, address, db_ok, db_ok_again)))]
    /\ UNCHANGED Others

----------------------------------------------------------------------------
(* Explorer links *)

\* the token ids callers pass: None, or an integer
TokenIds == {Nothing, Some(0), Some(7)}

\* _get_explorer_url(contract_address, token_id=None)
CallGetExplorerUrl(t) ==
    /\ Ready(t)
    /\ \E contract_address \in Wallets, token_id \in TokenIds :
          frame' = [frame EXCEPT ![t] =
             Finish(Enter("_get_explorer_url", <<contract_address, token_id>>),
                    Return(get_explorer_url(contract_address, token_id)))]
    /\ UNCHANGED Others

\* GET /nft/<contract_address>/<int:token_id>/explorer
get_nft_explorer_url(contract_address, token_id) ==
    LET explorer_url == get_explorer_url(contract_address, Some(token_id))
    IN  IF explorer_url = Nothing
           THEN Response(404, [error |-> "Explorer not available for current network"])
           ELSE Response(200, [explorer_url |-> explorer_url,
                               contract_address |-> contract_address,
                               token_id |-> token_id])

CallGetNftExplorerUrl(t) ==
    /\ Ready(t)
    /\ \E contract_address \in Wallets, token_id \in {0, 7} :
          frame' = [frame EXCEPT ![t] =
             Finish(Enter("get_nft_explorer_url", <<contract_address, token_id>>),
                    Return(get_nft_explorer_url(contract_address, token_id)))]
    /\ UNCHANGED Others

----------------------------------------------------------------------------
(* The module's service instance *)

\* get_blockchain_service constructing a service on every call
get_blockchain_service_AlwaysNew(global, count) ==
    [global |-> Some(count + 1), instances |-> count + 1]

\* get_blockchain_service(): the global after the call, which is the instance
\* returned, and the number of services constructed; objects are numbered in
\* the order of their construction
get_blockchain_service(global, count) ==
    IF global = Nothing
       THEN [global |-> Some(count + 1), instances |-> count + 1]
       ELSE [global |-> global, instances |-> count]

\* a caller of get_blockchain_service(). The module body has run before anyone
\* can call: blockchain_service = get_blockchain_service() is executed by the
\* import, which other importing threads wait for
CallGetBlockchainService(t) ==
    /\ Ready(t)
    /\ LET r == get_blockchain_service(_blockchain_service, instances)
       IN  /\ _blockchain_service' = r.global
           /\ instances' = r.instances
           /\ frame' = [frame EXCEPT ![t] =
                  Finish(Enter("get_blockchain_service", <<>>), Return(r.global))]
    /\ UNCHANGED <<environ, reachable, node, init_pc, service, store, tickets>>

----------------------------------------------------------------------------
(* setup-tickets.py: the demo tickets *)

\* the rows of a table in the order of their ids
RowsById(table) ==
    LET ids == DOMAIN table
    IN  CHOOSE q \in [1..Cardinality(ids) -> ids] :
            \A a, b \in 1..Cardinality(ids) : a < b => q[a] < q[b]

\* rows[:n]
Take(rows, n) == SubSeq(rows, 1, IF Len(rows) < n THEN Len(rows) ELSE n)

\* Ticket(token_id=..., event_id=..., user_id=..., wallet_address=..., seat_info=...,
\* ticket_type=...): the object before it is inserted; is_used and is_active get
\* their column defaults at the insert
NewTicket(token_id, event, user, j) ==
    [token_id |-> token_id, event_id |-> event, user_id |-> user,
     wallet_address |-> users[user].wallet_address,
     seat_info |-> IF j = 1 THEN "Seat-1" ELSE "Seat-2",
     ticket_type |-> IF j = 1 THEN "VIP" ELSE "Standard",
     is_used |-> Nothing]

\* the insert writing the column default over the flag the script had set
Inserted_Unused(ticket) ==
    [token_id |-> ticket.token_id, event_id |-> ticket.event_id, user_id |-> ticket.user_id,
     wallet_address |-> ticket.wallet_address,
     purchase_date |-> [seconds |-> 300, microsecond |-> 0],
     is_used |-> FALSE,
     is_active |-> TRUE,
     seat_info |-> ticket.seat_info, ticket_type |-> ticket.ticket_type]

\* the row the commit inserts for a ticket: is_used defaults to False,
\* is_active to True, purchase_date to the time of the insert
Inserted(ticket) ==
    [token_id |-> ticket.token_id, event_id |-> ticket.event_id, user_id |-> ticket.user_id,
     wallet_address |-> ticket.wallet_address,
     purchase_date |-> [seconds |-> 300, microsecond |-> 0],
     is_used |-> IF ticket.is_used = Nothing THEN FALSE ELSE ticket.is_used[1],
     is_active |-> TRUE,
     seat_info |-> ticket.seat_info, ticket_type |-> ticket.ticket_type]

\* the loop variables after one pass of the inner loop
SetupAdvance(s) ==
    IF s.j < Len(Take(RowsById(users), 2))
       THEN [s EXCEPT !.pc = "construct", !.j = s.j + 1]
       ELSE IF s.i < Len(Take(RowsById(events), 3))
               THEN [s EXCEPT !.pc = "construct", !.i = s.i + 1, !.j = 1]
               ELSE [s EXCEPT !.pc = "commit"]

\* setup_tickets up to its loops: the users, the events, the count of tickets
SetupBegin ==
    /\ setup.pc = "start"
    /\ setup' = IF DOMAIN users = {} \/ DOMAIN events = {} \/ tickets # {}
                   THEN [setup EXCEPT !.pc = "done"]
                   ELSE [setup EXCEPT !.pc = "construct", !.demo_tickets = <<>>,
                                      !.token_id = 1, !.i = 1, !.j = 1]
    /\ UNCHANGED <<environ, reachable, node, init_pc, service, singleton, tickets, users, events, frame>>

\* if user.wallet_address: ticket = Ticket(...)
SetupConstruct ==
    /\ setup.pc = "construct"
    /\ LET event == RowsById(events)[setup.i]
           user  == RowsById(users)[setup.j]
       IN  setup' = IF users[user].wallet_address # None
                       THEN [setup EXCEPT !.pc = "mark",
                                          !.ticket = Some(NewTicket(setup.token_id, event, user, setup.j))]
                       ELSE SetupAdvance(setup)
    /\ UNCHANGED <<environ, reachable, node, init_pc, service, singleton, tickets, users, events, frame>>

\* if token_id % 3 == 0: ticket.is_used = True; demo_tickets.append(ticket); token_id += 1
SetupMark ==
    /\ setup.pc = "mark"
    /\ LET ticket == IF setup.token_id % 3 = 0
                         THEN [setup.ticket[1] EXCEPT !.is_used = Some(TRUE)]
                         ELSE setup.ticket[1]
       IN  setup' = SetupAdvance([setup EXCEPT !.demo_tickets = Append(@, ticket),
                                               !.ticket = Nothing,
                                               !.token_id = @ + 1])
    /\ UNCHANGED <<environ, reachable, node, init_pc, service, singleton, tickets, users, events, frame>>

\* db.session.add(ticket) for each ticket, db.session.commit(); an error ends
\* the script in its handler with nothing inserted
SetupCommit ==
    /\ setup.pc = "commit"
    /\ \E db_ok \in BOOLEAN :
          tickets' = IF db_ok
                        THEN tickets \cup {Inserted(setup.demo_tickets[k]) : k \in DOMAIN setup.demo_tickets}
                        ELSE tickets
    /\ setup' = [setup EXCEPT !.pc = "done"]
    /\ UNCHANGED <<environ, reachable, node, init_pc, service, singleton, users, events, frame>>

----------------------------------------------------------------------------
(* profiles.py: the profile endpoints *)

\* the user ids requests name: those of the table, and one that is not in it
RequestedUserIds == DOMAIN DemoUsers \cup {4}

\* User.to_dict(), for the columns of the model
to_dict(user) ==
    [id |-> user.id, username |-> user.username, email |-> user.email,
     is_active |-> user.is_active, is_admin |-> user.is_admin, bio |-> user.bio,
     wallet_address |-> user.wallet_address,
     is_profile_public |-> user.is_profile_public,
     wallet_verified |-> user.wallet_verified]

\* the list of get_public_profile without the email
SensitiveFields_NoEmail == {"is_active", "is_admin", "wallet_verified"}

\* sensitive_fields of get_public_profile
SensitiveFields == {"email", "is_active", "is_admin", "wallet_verified"}

\* for field in fields: d.pop(field, None)
Pop(d, fields) == [k \in DOMAIN d \ fields |-> d[k]]

InternalError(error) == Response(500, [error |-> "Internal server error", details |-> error])

\* GET /profiles/<user_id>
get_public_profile(user_id, db_ok) ==
    IF ~db_ok THEN InternalError("OperationalError")
    ELSE IF user_id \notin DOMAIN users
            THEN Response(404, [error |-> "User not found"])
    ELSE IF ~users[user_id].is_profile_public
            THEN Response(403, [error |-> "Profile is private"])
    ELSE Response(200, [profile |-> Pop(to_dict(users[user_id]), SensitiveFields)])

CallGetPublicProfile(t) ==
    /\ Ready(t)
    /\ \E user_id \in RequestedUserIds, db_ok \in BOOLEAN :
          frame' = [frame EXCEPT ![t] =
             Finish(Did(Enter("get_public_profile", <<user_id>>),
                        IF db_ok THEN "User.query" ELSE "User.query failed"),
                    Return(get_public_profile(user_id, db_ok)))]
    /\ UNCHANGED Others

\* PUT /profiles/me with is_profile_public in its body, for the user of the token
CallUpdateProfile(t) ==
    /\ Ready(t)
    /\ \E current_user_id \in RequestedUserIds, is_profile_public \in BOOLEAN, db_ok \in BOOLEAN :
          LET f == Did(Enter("update_profile", <<current_user_id, is_profile_public>>),
                       IF db_ok THEN "commit" ELSE "commit failed")
              updated == [users EXCEPT ![current_user_id].is_profile_public = is_profile_public]
          IN  IF current_user_id \notin DOMAIN users
                 THEN /\ frame' = [frame EXCEPT ![t] =
                             Finish(f, Return(Response(404, [error |-> "User not found"])))]
                      /\ UNCHANGED users
                 ELSE IF ~db_ok
                         THEN /\ frame' = [frame EXCEPT ![t] =
                                     Finish(f, Return(InternalError("OperationalError")))]
                              /\ UNCHANGED users
                         ELSE /\ users' = updated
                              /\ frame' = [frame EXCEPT ![t] =
                                     Finish(f, Return(Response(200,
                                        [message |-> "Profile updated successfully",
                                         profile |-> to_dict(updated[current_user_id])])))]
    /\ UNCHANGED <<environ, reachable, node, init_pc, service, singleton, tickets, events, setup>>

\* wallet addresses a request may carry: the one of user 1, a free one, the
\* free one with blanks around it, and one that is not 42 characters
WalletInputs == {"0xA", "0xC", " 0xC ", "0x12"}

\* wallet_address.strip()
Strip(str) ==
    CASE str = " 0xC "  -> "0xC"
      [] str = " Gala " -> "Gala"
      [] OTHER          -> str

\* len(wallet_address) == 42 and wallet_address.startswith('0x'); the addresses
\* of the model stand for 42 characters each but for "0x12" and the padded one
WalletFormatOk(address) == address \in {"0xA", "0xB", "0xC", "0xD"}

\* a personal_sign signature: who signed which text
Signed(signer, text) == [signer |-> signer, text |-> text]

\* bytes that are no signature
Garbage == [signer |-> None, text |-> "garbage"]

\* Account.recover_message: the signer for the signed text, another address
\* for any other text; raises for bytes that are no signature
recover_message(message, signature) ==
    IF signature = Garbage THEN Raise("BadSignature")
    ELSE IF signature.text = message THEN Return(signature.signer)
    ELSE Return("0xE")

\* User.verify_wallet_signature; the import of encode_defunct_message is
\* outside its try, and fails where eth_account has no such name
verify_wallet_signature(wallet_address, message, signature, import_ok) ==
    IF ~import_ok THEN Raise("ImportError")
    ELSE IF wallet_address = None THEN Return(FALSE)
    ELSE LET recovered == recover_message(message, signature)
         IN  IF recovered.kind = "raise" THEN Return(FALSE)
             ELSE Return(recovered.val = wallet_address)

\* User.query.filter_by(wallet_address=...).first() names another user
Taken(wallet_address, current_user_id) ==
    \E id \in DOMAIN users : id # current_user_id /\ users[id].wallet_address = wallet_address

\* PUT /profiles/me/wallet: the answer and the rows it leaves
update_wallet_address(current_user_id, data, fault) ==
    LET user   == users[current_user_id]
        wallet == Strip(data.wallet_address[1])
        signed == data.signature # Nothing /\ data.message # Nothing
        valid  == verify_wallet_signature(wallet, data.message[1], data.signature[1], fault # "import")
        set(verified) == [users EXCEPT ![current_user_id].wallet_address = wallet,
                                       ![current_user_id].wallet_verified = verified]
        commit(rows) ==
            IF fault # "commit"
               THEN [rows |-> rows,
                     ret  |-> Response(200, [message |-> "Wallet address updated successfully",
                                             wallet_address |-> rows[current_user_id].wallet_address,
                                             wallet_verified |-> rows[current_user_id].wallet_verified])]
               ELSE [rows |-> users, ret |-> InternalError("OperationalError")]
        reject(status, error) == [rows |-> users, ret |-> Response(status, [error |-> error])]
    IN  IF current_user_id \notin DOMAIN users THEN reject(404, "User not found")
        ELSE IF data.wallet_address = Nothing THEN commit(users)
        ELSE IF ~WalletFormatOk(wallet) THEN reject(400, "Invalid wallet address format")
        ELSE IF Taken(wallet, current_user_id) THEN reject(409, "Wallet address already associated")
        ELSE IF signed
                THEN IF valid.kind = "raise"
                        THEN [rows |-> users, ret |-> InternalError(valid.err)]
                     ELSE IF ~valid.val THEN reject(400, "Invalid signature")
                     ELSE commit(set(TRUE))
        ELSE commit(set(TRUE))

\* what goes wrong during a request: nothing, the import of
\* encode_defunct_message, or the commit
WalletFaults == {"none", "import", "commit"}

WalletData ==
    [wallet_address : {Nothing} \cup {Some(a) : a \in WalletInputs},
     signature : {Nothing, Some(Garbage), Some(Signed("0xC", "login"))},
     message : {Nothing, Some("login"), Some("other")}]

CallUpdateWalletAddress(t) ==
    /\ Ready(t)
    /\ \E current_user_id \in RequestedUserIds, data \in WalletData, fault \in WalletFaults :
          LET out == update_wallet_address(current_user_id, data, fault)
          IN  /\ users' = out.rows
              /\ frame' = [frame EXCEPT ![t] =
                     Finish(Did(Enter("update_wallet_address", <<current_user_id, data>>),
                                fault),
                            Return(out.ret))]
    /\ UNCHANGED <<environ, reachable, node, init_pc, service, singleton, tickets, events, setup>>

----------------------------------------------------------------------------
(* events.py: creating, updating and deleting events *)

\* rows the events table may hold
MaxEvents == 2

\* the dates requests carry, and the readings of datetime.utcnow()
Dates == {21, 23}
Clock == {20, 22}

\* the users of the tokens that reach the event endpoints: the organizer of
\* event 1, another user, and (for create_event) one without a row
EventUsers == {1, 2}

\* a field of the request body: absent, or present with a value
Absent == <<>>

\* the request bodies: start_date absent or a date, end_date absent, null or a date
EventData ==
    [start_date : {Absent} \cup {Some(d) : d \in Dates},
     end_date : {Absent, Some(Nothing)} \cup {Some(Some(d)) : d \in Dates}]

\* validate_end_date of both schemas
validate_end_date(data, now) ==
    ~(data.end_date # Absent /\ data.end_date[1] # Nothing /\ data.end_date[1][1] <= now)

\* EventCreateSchema: start_date required, validate_end_date, validate_dates
EventCreateSchema(data, now) ==
    /\ data.start_date # Absent
    /\ validate_end_date(data, now)
    /\ ~(data.end_date # Absent /\ data.end_date[1] # Nothing
            /\ data.start_date[1] >= data.end_date[1][1])

\* EventUpdateSchema: validate_end_date, and validate_dates, which compares
\* the two dates only when the body holds both
EventUpdateSchema(data, now) ==
    /\ validate_end_date(data, now)
    /\ ~(data.end_date # Absent /\ data.start_date # Absent /\ data.end_date[1] # Nothing
            /\ data.start_date[1] >= data.end_date[1][1])

ValidationError == Response(400, [error |-> "Validation error"])

\* the organizer test of update_event and delete_event, passed by everyone
IsOrganizer_Anyone(event, current_user_id) == TRUE

\* event.organizer_id != current_user_id
IsOrganizer(event, current_user_id) == event.organizer_id = current_user_id

\* POST /events/: the answer and the rows it leaves
create_event(current_user_id, data, now, db_ok) ==
    LET id    == Cardinality(DOMAIN events) + 1
        event == [id |-> id, title |-> Strip(" Gala "), start_date |-> data.start_date[1],
                  end_date |-> IF data.end_date = Absent THEN Nothing ELSE data.end_date[1],
                  capacity |-> 50, organizer_id |-> current_user_id, is_active |-> TRUE]
        rows  == [i \in DOMAIN events \cup {id} |-> IF i = id THEN event ELSE events[i]]
    IN  IF current_user_id \notin DOMAIN users
           THEN [rows |-> events, ret |-> Response(404, [error |-> "User not found"])]
        ELSE IF ~EventCreateSchema(data, now) THEN [rows |-> events, ret |-> ValidationError]
        ELSE IF ~db_ok THEN [rows |-> events, ret |-> InternalError("OperationalError")]
        ELSE [rows |-> rows,
              ret  |-> Response(201, [message |-> "Event created successfully", event |-> event])]

\* PUT /events/<event_id>
update_event(event_id, current_user_id, data, now, db_ok) ==
    LET event   == events[event_id]
        updated == [event EXCEPT
                      !.start_date = IF data.start_date = Absent THEN @ ELSE data.start_date[1],
                      !.end_date   = IF data.end_date = Absent THEN @ ELSE data.end_date[1]]
    IN  IF event_id \notin DOMAIN events
           THEN [rows |-> events, ret |-> Response(404, [error |-> "Event not found"])]
        ELSE IF ~IsOrganizer(event, current_user_id)
           THEN [rows |-> events, ret |-> Response(403, [error |-> "Unauthorized"])]
        ELSE IF ~EventUpdateSchema(data, now) THEN [rows |-> events, ret |-> ValidationError]
        ELSE IF ~db_ok THEN [rows |-> events, ret |-> InternalError("OperationalError")]
        ELSE [rows |-> [events EXCEPT ![event_id] = updated],
              ret  |-> Response(200, [message |-> "Event updated successfully", event |-> updated])]

\* DELETE /events/<event_id>: a soft delete
delete_event(event_id, current_user_id, db_ok) ==
    IF event_id \notin DOMAIN events
       THEN [rows |-> events, ret |-> Response(404, [error |-> "Event not found"])]
    ELSE IF ~IsOrganizer(events[event_id], current_user_id)
       THEN [rows |-> events, ret |-> Response(403, [error |-> "Unauthorized"])]
    ELSE IF ~db_ok THEN [rows |-> events, ret |-> InternalError("OperationalError")]
    ELSE [rows |-> [events EXCEPT ![event_id].is_active = FALSE],
          ret  |-> Response(200, [message |-> "Event deleted successfully"])]

\* a request to the events table ends
EventRequest(t, op, args, out) ==
    /\ events' = out.rows
    /\ frame' = [frame EXCEPT ![t] = Finish(Enter(op, args), Return(out.ret))]
    /\ UNCHANGED <<environ, reachable, node, init_pc, service, singleton, tickets, users, setup>>

CallPostEvent(t) ==
    /\ Ready(t)
    /\ Cardinality(DOMAIN events) < MaxEvents
    /\ \E current_user_id \in {2, 4}, data \in EventData, now \in Clock, db_ok \in BOOLEAN :
          EventRequest(t, "POST /events/", <<current_user_id, data>>,
                       create_event(current_user_id, data, now, db_ok))

CallPutEvent(t) ==
    /\ Ready(t)
    /\ \E event_id \in 1..MaxEvents, current_user_id \in EventUsers, data \in EventData,
          now \in Clock, db_ok \in BOOLEAN :
          EventRequest(t, "update_event", <<event_id, current_user_id, data>>,
                       update_event(event_id, current_user_id, data, now, db_ok))

CallDeleteEvent(t) ==
    /\ Ready(t)
    /\ \E event_id \in 1..MaxEvents, current_user_id \in EventUsers, db_ok \in BOOLEAN :
          EventRequest(t, "delete_event", <<event_id, current_user_id>>,
                       delete_event(event_id, current_user_id, db_ok))

----------------------------------------------------------------------------
(* The process *)

Request(t) ==
    \/ CallIsConnected(t)        \/ StepIsConnected(t)
    \/ CallGetAccountBalance(t)  \/ StepGetBalance(t)
    \/ CallSendTransaction(t)    \/ StepGasPrice(t) \/ StepNonce(t)
    \/ StepBuildEstimate(t)      \/ StepEstimate(t) \/ StepSubmit(t)
    \/ CallCallFunction(t)       \/ StepCall(t)
    \/ CallGetEvent(t)
    \/ CallGetNftMetadata(t)     \/ StepNftRead(t)
    \/ CallWaitForTransaction(t) \/ StepWaitProbe(t)
    \/ StepWaitReceipt(t)        \/ StepWaitExcept(t)
    \/ CallCreateEvent(t)      \/ CallProcessPayment(t)
    \/ CallRegisterForEvent(t)   \/ StepRegisterProbe(t)
    \/ CallMintTicket(t)         \/ CallTransferTicket(t)
    \/ CallGetUserTickets(t)
    \/ CallGetExplorerUrl(t)    \/ CallGetNftExplorerUrl(t)

Next ==
    \/ NetChange
    \/ Construct
    \/ \E t \in MainThreads : Request(t)

Spec == Init /\ [][Next]_vars

\* the start of the process in every environment, and the liveness checks after it
InitBoot == InitService(Environs)

NextBoot ==
    \/ NetChange
    \/ Construct
    \/ \E t \in MainThreads : CallIsConnected(t) \/ StepIsConnected(t)

SpecBoot == InitBoot /\ [][NextBoot]_vars

\* registrations from several request threads at once
RegisterRequest(t) ==
    \/ CallRegisterForEvent(t) \/ StepRegisterProbe(t)
    \/ StepGasPrice(t)         \/ StepNonce(t)
    \/ StepBuildEstimate(t)    \/ StepSubmit(t)

NextRegister ==
    \/ NetChange
    \/ Construct
    \/ \E t \in Threads : RegisterRequest(t)

SpecRegister == Init /\ [][NextRegister]_vars

\* a deployment that can sign and has its three contracts deployed
DeployedEnvirons ==
    { e \in ServingEnvirons :
        /\ e.BLOCKCHAIN_PRIVATE_KEY = "valid"
        /\ \A c \in ContractNames : e.address[c] = "valid" }

\* the tables a run of setup-tickets.py can find: any of the users and of the
\* events registered so far, and the tickets table empty or filled
SubTables(table) == {[id \in ids |-> table[id]] : ids \in SUBSET DOMAIN table}

InitTickets ==
    /\ InitBlockchain(DeployedEnvirons)
    /\ tickets \in {{}, DemoTickets}
    /\ users \in SubTables(DemoUsers)
    /\ events \in SubTables(DemoEvents)
    /\ setup = [SetupIdle EXCEPT !.pc = "start"]
    /\ frame = [t \in Threads |-> IdleFrame]

NextTickets == SetupBegin \/ SetupConstruct \/ SetupMark \/ SetupCommit

SpecTickets == InitTickets /\ [][NextTickets]_vars

\* the profile endpoints, requested from several threads
InitProfiles ==
    /\ InitBlockchain(DeployedEnvirons)
    /\ tickets = DemoTickets
    /\ users = DemoUsers
    /\ events = DemoEvents
    /\ setup = SetupIdle
    /\ frame = [t \in Threads |-> IdleFrame]

NextProfiles ==
    \/ Construct
    \/ \E t \in Threads : CallGetPublicProfile(t) \/ CallUpdateProfile(t)

SpecProfiles == InitProfiles /\ [][NextProfiles]_vars

\* wallet updates of one request thread
NextWallet ==
    \/ Construct
    \/ \E t \in MainThreads : CallUpdateWalletAddress(t)

SpecWallet == InitService(DeployedEnvirons) /\ [][NextWallet]_vars

\* the event endpoints of one request thread, from a table of one event
InitEvents ==
    /\ InitBlockchain(DeployedEnvirons)
    /\ tickets = DemoTickets
    /\ users = DemoUsers
    /\ events = [id \in {1} |-> DemoEvents[id]]
    /\ setup = SetupIdle
    /\ frame = [t \in Threads |-> IdleFrame]

NextEvents ==
    \/ Construct
    \/ \E t \in MainThreads : CallPostEvent(t) \/ CallPutEvent(t) \/ CallDeleteEvent(t)

SpecEvents == InitEvents /\ [][NextEvents]_vars

\* callers of get_blockchain_service on several request threads
NextSingleton ==
    \/ NetChange
    \/ Construct
    \/ \E t \in Threads : CallGetBlockchainService(t) \/ CallIsConnected(t) \/ StepIsConnected(t)

SpecSingleton == Init /\ [][NextSingleton]_vars

\* the values BLOCKCHAIN_NETWORK is given: the networks of the table, and one
\* that is not in it
NetworkNames == DOMAIN NETWORKS \cup {"goerli"}

\* a built deployment without signer on each network
ExplorerEnvirons ==
    [ importable            : BOOLEAN,
      BLOCKCHAIN_NETWORK    : NetworkNames,
      BLOCKCHAIN_PRIVATE_KEY: {"unset"},
      address               : {[c \in ContractNames |-> "valid"]},
      artifact              : {[c \in ContractNames |-> "valid"]} ]

InitExplorer == InitService(ExplorerEnvirons)

NextExplorer ==
    \/ NetChange
    \/ Construct
    \/ \E t \in MainThreads : CallGetExplorerUrl(t) \/ CallGetNftExplorerUrl(t)

SpecExplorer == InitExplorer /\ [][NextExplorer]_vars

----------------------------------------------------------------------------
(* Properties *)

Range(seq) == {seq[i] : i \in DOMAIN seq}

\* the frame is inside send_transaction, or has left it
InSend(f) == f.send.contract_name # None /\ f.op \notin {"call_function", "get_event"}

\* the frame is inside call_function, or has left it
InCall(f) == f.send.contract_name # None /\ f.op \in {"call_function", "get_event"}

\* thread t's call of op returns or raises in this step
Completes(t, op) ==
    /\ frame'[t] # frame[t]
    /\ frame'[t].op = op
    /\ frame'[t].pc = "done"

\* C1: send_transaction called when no signing account is configured fails with
\* the no-signer error before any contract lookup, gas price or nonce fetch,
\* signature or submission, whatever the connectivity; the node receives nothing.
C1_NoSignerFailsFirst ==
    /\ \A t \in Threads :
          (InSend(frame[t]) /\ account = None) =>
              /\ frame[t].pc = "done"
              /\ frame[t].ret = Raise("NoSigner")
              /\ Range(frame[t].did) \cap SendSteps = {}
    /\ account = None => node.received = <<>>

\* a send without signer against a loaded contract on a reachable endpoint
C1_Witness ==
    \E t \in Threads :
        /\ frame[t].op = "send_transaction"
        /\ account = None
        /\ frame[t].send.contract_name \in contracts
        /\ reachable
        /\ frame[t].ret = Raise("NoSigner")

\* C2 as stated: after construction the loaded contracts are none if the
\* connection was not live at load time, and otherwise exactly those whose
\* artifact file is readable and whose address variable is set.
C2_LoadsReadableAndSet ==
    [][(init_pc = "load" /\ init_pc' = "ready") =>
          contracts' = IF w3 # None /\ reachable
                          THEN {c \in ContractNames : /\ environ.artifact[c] # "missing"
                                                      /\ environ.address[c] # "unset"}
                          ELSE {}]_vars

\* C2: after construction the loaded contracts are none if the connection was
\* not live at load time, and otherwise exactly those whose artifact file is
\* readable and well-formed and whose address variable holds a well-formed
\* address; what is wrong with one contract never keeps another from loading.
C2_LoadsWellFormed ==
    [][(init_pc = "load" /\ init_pc' = "ready") =>
          /\ ~(w3 # None /\ reachable) => contracts' = {}
          /\ (w3 # None /\ reachable) =>
                \A c \in ContractNames :
                    c \in contracts' <=> (environ.artifact[c] = "valid" /\ environ.address[c] = "valid")
          /\ contracts' \subseteq ContractNames]_vars

\* the second contract of the three is the only one loaded: the first has no
\* address, the third no artifact
C2_Witness ==
    /\ init_pc = "ready"
    /\ contracts = {"PaymentProcessor"}
    /\ environ.address["EventContract"] = "unset"
    /\ environ.artifact["TicketNFT"] = "missing"

\* C3: with a signer configured, send_transaction against a contract name absent
\* from the loaded mapping, and call_function against such a name, fail with the
\* not-loaded error, and nothing is signed or submitted.
C3_NotLoadedFails ==
    \A t \in Threads :
        LET f == frame[t]
        IN  (/\ f.send.contract_name # None
             /\ f.send.contract_name \notin contracts
             /\ (InCall(f) \/ account # None)) =>
                /\ f.pc = "done"
                /\ f.ret = Raise("NotLoaded")
                /\ Range(f.did) \cap {"gas_price", "get_transaction_count", "build_transaction",
                                      "estimate_gas", "sign_transaction",
                                      "send_raw_transaction", "call"} = {}

\* a signer, exactly one contract loaded, and a send against another one
C3_Witness ==
    \E t \in Threads :
        /\ frame[t].op = "send_transaction"
        /\ account # None
        /\ Cardinality(contracts) = 1
        /\ frame[t].send.contract_name \in ContractNames \ contracts
        /\ frame[t].ret = Raise("NotLoaded")

\* C4: once construction has finished no operation changes the contracts
\* mapping, the client handle, the chain id or the signing account.
C4_ServiceFrozen ==
    [][init_pc = "ready" => UNCHANGED <<contracts, w3, chain_id, account>>]_vars

\* a contract whose address is configured was not loaded at startup, the endpoint
\* is reachable now, and a call against the contract still fails as not loaded
C4_Witness ==
    \E t \in Threads :
        /\ frame[t].pc = "done"
        /\ frame[t].ret = Raise("NotLoaded")
        /\ frame[t].send.contract_name \in ContractNames
        /\ environ.address[frame[t].send.contract_name] = "valid"
        /\ reachable

\* C5 as stated: every call of is_connected returns true exactly when the
\* endpoint is reachable at the time of the call.
C5_ProbeTracksEndpoint ==
    [][\A t \in Threads :
          Completes(t, "is_connected") => frame'[t].ret = Return(reachable)]_vars

\* C5: every call of is_connected returns true exactly when the client handle
\* was kept at startup and the endpoint is reachable at the time of the call.
C5_ProbeTracksEndpointOfKeptClient ==
    [][\A t \in Threads :
          Completes(t, "is_connected") => frame'[t].ret = Return(w3 # None /\ reachable)]_vars

\* the endpoint was unreachable at startup, is reachable now, and is_connected
\* has answered false
C5_Witness ==
    \E t \in Threads :
        /\ frame[t].op = "is_connected"
        /\ frame[t].pc = "done"
        /\ frame[t].ret = Return(FALSE)
        /\ frame[t].did = <<>>
        /\ environ.importable /\ environ.BLOCKCHAIN_PRIVATE_KEY # "malformed"
        /\ w3 = None
        /\ reachable

\* the rows of the tickets table of a user and a wallet address
RowsOf(user_id, address) ==
    {row \in tickets : row.user_id = user_id /\ row.wallet_address = address}

\* the answer lists exactly the rows, each in the chain's format
ListsRows(answer, rows) ==
    /\ Cardinality(answer) = Cardinality(rows)
    /\ \A row \in rows :
          \E x \in answer :
             /\ x.token_id = row.token_id
             /\ x.event_id = row.event_id
             /\ x.purchaser = row.wallet_address
             /\ x.is_used = row.is_used
             /\ x.is_active = row.is_active
             /\ x.seat_info = row.seat_info
             /\ x.ticket_type = row.ticket_type

\* C6: whenever the endpoint is unreachable, is_connected returns false and
\* get_user_tickets answers 200 with offline_mode true and exactly the stored
\* tickets of the requesting user and wallet address, without raising; when the
\* store lookup fails it answers 200 with an empty list.
C6_OfflineTicketsFromStore ==
    [][\A t \in Threads :
          /\ (Completes(t, "is_connected") /\ ~reachable) => frame'[t].ret = Return(FALSE)
          /\ (Completes(t, "get_user_tickets") /\ ~reachable) =>
                LET f == frame'[t]
                IN  /\ f.ret.kind = "return"
                    /\ f.ret.val.status = 200
                    /\ f.ret.val.body.offline_mode = TRUE
                    /\ IF "Ticket.query failed" \in Range(f.did)
                          THEN f.ret.val.body.tickets = {}
                          ELSE ListsRows(f.ret.val.body.tickets, RowsOf(f.args[1], f.args[2]))]_vars

\* an offline listing of a user who holds two tickets, one of them on a wallet
\* another user holds a ticket on too
C6_Witness ==
    \E t \in Threads :
        /\ frame[t].op = "get_user_tickets"
        /\ ~reachable
        /\ frame[t].args = <<1, "0xB">>
        /\ Cardinality(frame[t].ret.val.body.tickets) = 1

\* what wait_for_transaction returns for tx_hash without asking the network
PlaceholderReceipt(tx_hash) ==
    [transactionHash |-> tx_hash, status |-> 1, blockNumber |-> 1, gasUsed |-> 21000,
     from |-> "0x0000000000000000000000000000000000000000",
     to   |-> "0x0000000000000000000000000000000000000000"]

\* thread t makes the first liveness check of wait_for_transaction in this step
WaitFirstCheck(t) ==
    /\ frame'[t] # frame[t]
    /\ frame'[t].op = "wait_for_transaction"
    /\ \/ frame[t].pc = "wait.is_connected"
       \/ frame[t].pc = "done" /\ frame'[t].pc # "wait.is_connected"

\* C7: wait_for_transaction called while the connection is not live returns at
\* once, without polling, the success receipt with the placeholder fields and
\* the hash passed in.
C7_OfflineReceiptIsSuccess ==
    [][\A t \in Threads :
          (WaitFirstCheck(t) /\ ~(w3 # None /\ reachable)) =>
              /\ frame'[t].pc = "done"
              /\ frame'[t].ret = Return(PlaceholderReceipt(frame'[t].args[1]))
              /\ "wait_for_transaction_receipt" \notin Range(frame'[t].did)]_vars

\* a wait whose probe of a kept client found the endpoint unreachable
C7_Witness ==
    \E t \in Threads :
        /\ frame[t].op = "wait_for_transaction"
        /\ frame[t].pc = "done"
        /\ frame[t].did = <<"is_connected">>
        /\ frame[t].ret.kind = "return"
        /\ frame[t].ret.val.status = 1

\* thread t is in the except clause of wait_for_transaction after a failed
\* polling, and its liveness probe of this step finds the connection live
WaitFailedLive(t) ==
    /\ frame[t].pc = "wait.except"
    /\ frame[t].exc \in {"TimeExhausted", "ConnectionError"}
    /\ frame'[t].pc = "done"
    /\ w3 # None /\ reachable

\* C8 as stated: on a live connection a polling timeout or lookup failure makes
\* wait_for_transaction return a synthesized failed receipt, not raise.
C8_LiveFailureSwallowed ==
    [][\A t \in Threads :
          WaitFailedLive(t) =>
              /\ frame'[t].ret.kind = "return"
              /\ frame'[t].ret.val.status = 0]_vars

\* C8: when the polling times out or the lookup fails, wait_for_transaction
\* raises the exception if its second liveness probe finds the connection live,
\* and returns the synthesized failed receipt only if that probe finds it gone.
C8_LiveFailureRaised ==
    [][\A t \in Threads :
          (frame[t].pc = "wait.except" /\ frame'[t].pc = "done") =>
              IF w3 # None /\ reachable
                 THEN frame'[t].ret = Raise(frame[t].exc)
                 ELSE frame'[t].ret =
                         Return([transactionHash |-> frame[t].args[1], status |-> 0,
                                 blockNumber |-> 0, gasUsed |-> 0, error |-> frame[t].exc])]_vars

\* a polling that timed out on a connection that is live: the wait raised
C8_Witness ==
    \E t \in Threads :
        /\ frame[t].op = "wait_for_transaction"
        /\ frame[t].pc = "done"
        /\ frame[t].ret = Raise("TimeExhausted")
        /\ reachable

HexCharacters == {HexDigits[i] : i \in 1..16}

\* thread t returned from a register_for_event that found the connection not
\* live
RegisteredOffline(t) ==
    /\ frame[t].op = "register_for_event"
    /\ frame[t].pc = "done"
    /\ frame[t].time # Nothing

\* C9: register_for_event on a connection that is not live returns a string of
\* 66 characters, 0x followed by 64 hexadecimal characters, and two such calls
\* for the same event_id and wallet_address at different clock readings return
\* different strings.
C9_PlaceholderHash ==
    /\ \A t \in Threads :
          RegisteredOffline(t) =>
             /\ frame[t].ret.kind = "return"
             /\ Len(frame[t].ret.val) = 66
             /\ SubSeq(frame[t].ret.val, 1, 2) = <<"0", "x">>
             /\ \A i \in 3..66 : frame[t].ret.val[i] \in HexCharacters
    /\ \A t, u \in Threads :
          (/\ RegisteredOffline(t) /\ RegisteredOffline(u)
           /\ frame[t].args[1] = frame[u].args[1]
           /\ frame[t].args[2] = frame[u].args[2]
           /\ frame[t].time # frame[u].time) =>
             frame[t].ret.val # frame[u].ret.val

\* two threads hold the placeholders of the same event and wallet, hashed at
\* different clock readings
C9_Witness ==
    /\ RegisteredOffline("t1") /\ RegisteredOffline("t2")
    /\ frame["t1"].args = frame["t2"].args
    /\ frame["t1"].time # frame["t2"].time
    /\ frame["t1"].ret.kind = "return" /\ frame["t2"].ret.kind = "return"

DomainWrites ==
    {"create_event", "process_payment", "register_for_event", "mint_ticket", "transfer_ticket"}

\* the contract a domain write sends to
Target(op) ==
    CASE op \in {"create_event", "register_for_event"} -> "EventContract"
      [] op = "process_payment"                        -> "PaymentProcessor"
      [] op \in {"mint_ticket", "transfer_ticket"}     -> "TicketNFT"

\* C10 as stated: a domain write called when the connection is not live or its
\* contract is not loaded gives its caller a result, never a failure.
C10_WritesNeverFail ==
    \A t \in Threads :
        (/\ frame[t].op \in DomainWrites
         /\ frame[t].pc = "done"
         /\ (w3 = None \/ Target(frame[t].op) \notin contracts)) =>
            frame[t].ret.kind = "return"

\* thread t makes the liveness check of register_for_event in this step
RegisterCheck(t) ==
    /\ frame'[t] # frame[t]
    /\ frame'[t].op = "register_for_event"
    /\ \/ frame[t].pc = "register.is_connected"
       \/ frame[t].pc = "done" /\ frame'[t].pc # "register.is_connected"

\* C10: only register_for_event whose liveness check finds the connection not
\* live gives its caller a placeholder hash; every other domain write, and
\* register_for_event on a live connection, raises when the client handle is
\* absent or its contract is not loaded, and a domain write returns no hash
\* but the placeholder or that of a transaction it submitted.
C10_OnlyRegisterSubstitutes ==
    [][\A t \in Threads :
          LET f == frame'[t]
          IN  /\ (RegisterCheck(t) /\ ~(w3 # None /\ reachable)) =>
                    /\ f.pc = "done"
                    /\ f.ret.kind = "return"
                    /\ f.time # Nothing
                    /\ f.ret.val = DummyHash(f.args[1], f.args[2], f.time[1])
                    /\ Range(f.did) \cap SendSteps = {}
              /\ (/\ f.op \in DomainWrites
                  /\ f.pc = "done"
                  /\ (w3 = None \/ Target(f.op) \notin contracts)
                  /\ ~(f.op = "register_for_event" /\ f.ret.kind = "return")) =>
                    /\ f.ret.kind = "raise"
                    /\ f.ret.err \in {"AttributeError", "InvalidAddress", "NoSigner", "NotLoaded"}
              /\ (f.op \in DomainWrites /\ f.pc = "done" /\ f.ret.kind = "return") =>
                    \/ "send_raw_transaction" \in Range(f.did)
                    \/ f.op = "register_for_event" /\ Range(f.did) \cap SendSteps = {}]_vars

\* a register_for_event that returned the placeholder with no client handle,
\* no signer and no contract
C10_Witness ==
    \E t \in Threads :
        /\ frame[t].op = "register_for_event"
        /\ frame[t].pc = "done"
        /\ frame[t].ret.kind = "return"
        /\ w3 = None /\ account = None /\ contracts = {}

\* the keys of the value a call returned: a str has none
ResultKeys(f) ==
    CASE f.op = "register_for_event"   -> {}
      [] f.op = "wait_for_transaction" -> DOMAIN f.ret.val
      [] f.op = "get_user_tickets"     -> DOMAIN f.ret.val.body
      [] OTHER                         -> {}

\* the call returned a result made up or read from the store because the chain
\* was not live
SynthesizedResult(f) ==
    /\ f.pc = "done"
    /\ f.ret.kind = "return"
    /\ \/ f.op = "register_for_event" /\ f.time # Nothing
       \/ f.op = "wait_for_transaction" /\ "wait_for_transaction_receipt" \notin Range(f.did)
       \/ f.op = "get_user_tickets" /\ "offline_mode" \in DOMAIN f.ret.val.body

OfflineFlags == {"offline_mode", "offline", "is_offline", "dummy", "placeholder", "synthesized"}

\* C11: every result synthesized or served from the store because the chain is
\* not live carries an explicit offline flag: the placeholder hash of
\* register_for_event, the placeholder receipt of wait_for_transaction and the
\* ticket list of get_user_tickets.
C11_OfflineResultsFlagged ==
    \A t \in Threads :
        SynthesizedResult(frame[t]) => ResultKeys(frame[t]) \cap OfflineFlags # {}

\* a placeholder receipt was returned by a wait on a connection that is not live
C11_Witness ==
    \E t \in Threads :
        /\ SynthesizedResult(frame[t])
        /\ frame[t].op = "wait_for_transaction"
        /\ frame[t].ret.val.status = 1

\* C12: get_account_balance never raises; it returns 0 whenever the client is
\* absent, the address is malformed or the endpoint does not answer, and the
\* node's balance otherwise.  In particular with no private key and the local
\* network's node unreachable, is_connected returns false and every balance is 0.
C12_BalanceNeverRaises ==
    [][\A t \in Threads :
          /\ Completes(t, "get_account_balance") =>
                LET f == frame'[t]
                IN  /\ f.ret.kind = "return"
                    /\ f.ret.val = IF w3 = None \/ ~reachable \/ ~IsAddress(f.args[1])
                                      THEN 0
                                      ELSE FromWei(NodeBalance(f.args[1]))
          /\ (/\ account = None /\ current_network = "localhost" /\ ~reachable
              /\ Completes(t, "is_connected")) =>
                frame'[t].ret = Return(FALSE)]_vars

\* without key, on the local network with its node unreachable, the balance of
\* an address that holds funds on the node was asked and returned as 0
C12_Witness ==
    \E t \in Threads :
        /\ environ.BLOCKCHAIN_PRIVATE_KEY = "unset"
        /\ current_network = "localhost"
        /\ ~reachable
        /\ frame[t].op = "get_account_balance"
        /\ frame[t].pc = "done"
        /\ NodeBalance(frame[t].args[1]) # ToWei(0)
        /\ frame[t].ret = Return(0)

\* the explorer base of the network the service runs on, None when the network
\* has none
ExplorerBase ==
    IF current_network \in DOMAIN NETWORKS THEN NETWORKS[current_network].block_explorer
                                           ELSE None

\* C13: on every network of the NETWORKS table, for every contract address and
\* optional token id, the explorer URL is null exactly when the network's
\* block_explorer is unset; otherwise it is <explorer>/token/<address>?a=<token_id>
\* when a token id is given and <explorer>/address/<address> when not; the
\* explorer endpoint answers 404 exactly when the URL is null.
C13_ExplorerUrl ==
    \A t \in Threads :
        LET f == frame[t]
        IN  /\ (f.op = "_get_explorer_url" /\ current_network \in DOMAIN NETWORKS) =>
                  /\ f.ret.kind = "return"
                  /\ (f.ret.val = Nothing) <=> (ExplorerBase = None)
                  /\ (ExplorerBase # None /\ f.args[2] # Nothing) =>
                        f.ret.val = <<ExplorerBase, "/token/", f.args[1], "?a=", f.args[2][1]>>
                  /\ (ExplorerBase # None /\ f.args[2] = Nothing) =>
                        f.ret.val = <<ExplorerBase, "/address/", f.args[1]>>
            /\ (f.op = "get_nft_explorer_url" /\ current_network \in DOMAIN NETWORKS) =>
                  /\ f.ret.kind = "return"
                  /\ (f.ret.val.status = 404) <=> (ExplorerBase = None)
                  /\ (f.ret.val.status # 404) =>
                        /\ f.ret.val.status = 200
                        /\ f.ret.val.body.explorer_url =
                              <<ExplorerBase, "/token/", f.args[1], "?a=", f.args[2]>>

\* on a network with an explorer the link of token 0 was asked and has the
\* token form
C13_Witness ==
    /\ frame["t1"].op = "_get_explorer_url"
    /\ frame["t1"].args[2] = Some(0)
    /\ current_network = "polygon"
    /\ frame["t1"].ret.val = <<"https://polygonscan.com", "/token/", frame["t1"].args[1], "?a=", 0>>

\* C14: constructing BlockchainService never raises, whatever fails (the
\* imports, the endpoint, the chain id fetch, the private key, the artifacts):
\* from every position of the constructor a next step exists until it is done,
\* and it ends with the client handle and the chain id both set or both null.
C14_ConstructionEnds ==
    /\ init_pc # "ready" => ENABLED Construct
    /\ init_pc = "ready" =>
          \/ w3 # None /\ chain_id # Nothing
          \/ w3 = None /\ chain_id = Nothing

\* the constructor finished with a malformed private key and a missing artifact,
\* the endpoint being reachable
C14_Witness ==
    /\ init_pc = "ready"
    /\ environ.BLOCKCHAIN_PRIVATE_KEY = "malformed"
    /\ environ.artifact["TicketNFT"] = "missing"
    /\ environ.importable
    /\ reachable
    /\ w3 = None /\ chain_id = Nothing /\ account = None

\* thread t signs and submits in this step
Submits(t) == frame[t].pc = "send_raw_transaction" /\ frame'[t] # frame[t]

\* the submission made in this step reached the node and was accepted
SubmissionAccepted ==
    /\ Len(node'.received) = Len(node.received) + 1
    /\ node'.received[Len(node'.received)].accepted

EstimatesGas(t) ==
    /\ frame[t].pc \in {"build_transaction", "estimate_gas"}
    /\ frame[t].send.kwargs.gas = Nothing
    /\ frame'[t] # frame[t]

\* C16: in send_transaction, when the caller supplies no gas value, the gas comes
\* from an estimation, and when the estimation fails on an endpoint that answers
\* the default 21000 is used and the transaction goes on to be signed and
\* submitted: an estimation failure alone never makes send_transaction fail.
C16_EstimationFailureRecovered ==
    [][\A t \in Threads :
          (EstimatesGas(t) /\ reachable) =>
             /\ frame'[t].pc = "send_raw_transaction"
             /\ frame'[t].tx.gas \in {Some(node.estimate), Some(DefaultGas)}]_vars

\* a send without gas value ended with the estimation error of build_transaction,
\* before estimate_gas of the service was called
C16_Witness ==
    \E t \in Threads :
        /\ frame[t].pc = "done"
        /\ frame[t].send.kwargs.gas = Nothing
        /\ frame[t].ret = Raise("ContractLogicError")
        /\ "build_transaction" \in Range(frame[t].did)
        /\ "estimate_gas" \notin Range(frame[t].did)

\* thread t hands its dictionary to build_transaction in this step
BuildsEnvelope(t) ==
    /\ frame[t].pc = "get_transaction_count"
    /\ frame'[t].pc \in {"build_transaction", "estimate_gas", "send_raw_transaction"}

\* the keys of the envelope that are settled once it is built
SettledKeys(tx) == <<tx.from, tx.chainId, tx.gasPrice, tx.nonce, tx.value>>

\* C17: the envelope send_transaction builds carries the signer's address, the
\* chain id resolved at startup, the node's current gas price and the signer's
\* current transaction count as nonce, except that for each of gas, value,
\* nonce, gasPrice and chainId the caller gives, the caller's value is the one
\* in the envelope; these keys stay as built until the envelope is submitted.
C17_EnvelopeFields ==
    [][\A t \in Threads :
          LET k  == frame[t].send.kwargs
              tx == frame'[t].tx
          IN  /\ BuildsEnvelope(t) =>
                    /\ tx.from = SignerAddress
                    /\ tx.chainId  = (IF k.chainId  # Nothing THEN k.chainId  ELSE chain_id)
                    /\ tx.gasPrice = (IF k.gasPrice # Nothing THEN k.gasPrice ELSE Some(node.gas_price))
                    /\ tx.nonce    = (IF k.nonce    # Nothing THEN k.nonce    ELSE Some(node.count))
                    /\ k.value # Nothing => tx.value = k.value
                    /\ tx.gas = k.gas
                    /\ chain_id = Some(NodeChainId(environ.BLOCKCHAIN_NETWORK))
              /\ (frame[t].pc \in {"build_transaction", "estimate_gas"}
                    /\ frame'[t].pc \notin {frame[t].pc, "done"}) =>
                    /\ SettledKeys(tx) = SettledKeys(frame[t].tx)
                    /\ frame'[t].pc = "send_raw_transaction"
              /\ (Submits(t) /\ Len(node'.received) > Len(node.received)) =>
                    node'.received[Len(node'.received)].nonce = frame[t].tx.nonce]_vars

\* an envelope about to be signed whose gas, gas price and chain id are the
\* caller's while its nonce is the count that was read
C17_Witness ==
    \E t \in Threads :
        /\ frame[t].pc = "send_raw_transaction"
        /\ frame[t].send.kwargs.gasPrice = Some(33)
        /\ frame[t].send.kwargs.nonce = Nothing
        /\ frame[t].tx.gasPrice = Some(33)
        /\ frame[t].tx.chainId = Some(5)
        /\ frame[t].tx.gas = Some(90000)
        /\ frame[t].tx.nonce = Some(node.count)
        /\ frame[t].tx.from = SignerAddress

\* the sends of other threads that hold an envelope with nonce n and have not
\* submitted it yet
HoldingNonce(t, n) ==
    {u \in Threads \ {t} :
        /\ frame[u].pc \in {"build_transaction", "estimate_gas", "send_raw_transaction"}
        /\ frame[u].send.kwargs.nonce = Nothing
        /\ frame[u].tx.nonce = n}

\* C18: sends are not serialized. A send reads the signer's transaction count
\* from the node whatever the other sends in flight hold: no lock is taken and
\* no nonce is reserved, so two interleaved sends can read the same count and
\* both submit with the same nonce.
C18_SendsNotSerialized ==
    [][\A t \in Threads :
          (frame[t].pc = "get_transaction_count" /\ frame'[t].pc # frame[t].pc /\ reachable) =>
             /\ frame'[t].pc # "done"
             /\ frame[t].send.kwargs.nonce = Nothing =>
                   /\ frame'[t].tx.nonce = Some(node.count)
                   /\ HoldingNonce(t, Some(node.count)) # {} =>
                         frame'[t].tx.nonce \in {frame[u].tx.nonce : u \in Threads \ {t}}]_vars

\* the node received two submissions of different threads with the same nonce,
\* each made by the send_transaction of a request that gave no nonce
C18_Witness ==
    /\ Len(node.received) = 2
    /\ node.received[1].by # node.received[2].by
    /\ node.received[1].nonce = node.received[2].nonce
    /\ \A t \in Threads : /\ frame[t].pc = "done"
                          /\ "send_raw_transaction" \in Range(frame[t].did)
                          /\ frame[t].send.kwargs.nonce = Nothing

\* the calls of get_blockchain_service that have returned
Got == {t \in Threads : frame[t].op = "get_blockchain_service" /\ frame[t].pc = "done"}

MetadataReturns(t) ==
    /\ frame'[t] # frame[t]
    /\ frame'[t].op = "get_nft_metadata"
    /\ frame'[t].pc = "done"

MetadataKeys ==
    {"token_id", "token_uri", "owner", "contract_address", "network", "chain_id",
     "event_id", "ticket_type", "is_used", "explorer_url"}

\* a metadata record with the base fields read from the chain
BaseFilled(m) ==
    /\ DOMAIN m = MetadataKeys
    /\ m.token_uri = ChainToken.tokenURI
    /\ m.owner = ChainToken.ownerOf

ExtensionNull(m) == m.event_id = Nothing /\ m.ticket_type = None /\ m.is_used = Nothing

ExtensionFilled(m) ==
    /\ m.event_id = Some(ChainToken.getEventId)
    /\ m.ticket_type = ChainToken.getTicketType
    /\ m.is_used = Some(ChainToken.isTicketUsed)

\* C20: get_nft_metadata never raises. When it returns after an extension read
\* (event id, ticket type, used flag), the token URI and the owner were read
\* and are in the record, and the three extension fields are all null unless
\* the last of the three reads succeeded (the endpoint answering), in which
\* case all three are filled;
\* when it returns from its entry (no client, contract not loadable) or after
\* a base read (which then failed), the record holds only an error field.
C20_MetadataNeverRaises ==
    [][\A t \in Threads :
          MetadataReturns(t) =>
             /\ frame'[t].ret.kind = "return"
             /\ LET m  == frame'[t].ret.val
                    at == frame[t].pc
                IN  CASE at \in {"getEventId", "getTicketType"} ->
                            BaseFilled(m) /\ ExtensionNull(m)
                      [] at = "isTicketUsed" ->
                            BaseFilled(m) /\ (ExtensionNull(m) \/ (reachable /\ ExtensionFilled(m)))
                      [] at \in {"tokenURI", "ownerOf"} ->
                            DOMAIN m = {"error"}
                      [] OTHER ->
                            /\ DOMAIN m = {"error"}
                            /\ \/ w3 = None
                               \/ load_contract(frame'[t].args[1], "TicketNFT") = Nothing]_vars

\* the ticket type read failed after the event id was read: the record has the
\* token URI and the owner, and no extension field
C20_Witness ==
    \E t \in Threads :
        /\ frame[t].op = "get_nft_metadata"
        /\ frame[t].pc = "done"
        /\ frame[t].did = <<"_load_contract", "tokenURI", "ownerOf", "getEventId", "getTicketType">>
        /\ frame[t].ret.kind = "return"
        /\ BaseFilled(frame[t].ret.val)
        /\ ExtensionNull(frame[t].ret.val)

\* the send_transaction call register_for_event makes on a live connection
RegisterSend(f) ==
    [contract_name |-> "EventContract", function_name |-> "registerForEvent",
     kwargs |-> [NoKwargs EXCEPT !.value = Some(ToWei(f.args[3]))]]

\* C23: register_for_event whose liveness check finds the connection not live
\* returns the placeholder hash whether or not a signer is configured and
\* EventContract is loaded, and has then converted no price, looked up no
\* contract, signed and submitted nothing; when the check finds the connection
\* live it calls send_transaction for registerForEvent of EventContract with the
\* ticket price in base units as value, which is the value of the envelope.
C23_OfflineRegisterNeedsNothing ==
    [][\A t \in Threads :
          LET f == frame'[t]
          IN  /\ (RegisterCheck(t) /\ ~(w3 # None /\ reachable)) =>
                    /\ f.pc = "done"
                    /\ f.ret.kind = "return"
                    /\ f.time # Nothing
                    /\ Range(f.did) \subseteq {"is_connected"}
                    /\ f.send = NoSend
                    /\ f.tx = NoTx
                    /\ node' = node
              /\ (RegisterCheck(t) /\ w3 # None /\ reachable) =>
                    /\ f.time = Nothing
                    /\ f.send = RegisterSend(f)
                    /\ IF account = None
                          THEN f.pc = "done" /\ f.ret = Raise("NoSigner")
                          ELSE IF "EventContract" \notin contracts
                                  THEN f.pc = "done" /\ f.ret = Raise("NotLoaded")
                                  ELSE f.pc = "gas_price"
              /\ (f.op = "register_for_event" /\ f.tx.value # Nothing) =>
                    f.tx.value = Some(ToWei(f.args[3]))]_vars

\* a placeholder hash returned by a service that has no signer and no
\* EventContract, its client kept from startup and the endpoint gone since
C23_Witness ==
    \E t \in Threads :
        /\ RegisteredOffline(t)
        /\ frame[t].did = <<"is_connected">>
        /\ frame[t].ret.kind = "return"
        /\ account = None
        /\ "EventContract" \notin contracts
        /\ w3 # None

\* thread t's wait_for_transaction ends in this step
WaitEnds(t) ==
    /\ frame'[t] # frame[t]
    /\ frame'[t].op = "wait_for_transaction"
    /\ frame'[t].pc = "done"

\* the connection is live: what is_connected() answers in this state
Live == w3 # None /\ reachable

\* C24: wait_for_transaction returns the synthesized failed receipt (status 0)
\* only when its first liveness probe found the connection live, the wait for
\* the receipt then failed, and its second probe, in the except clause, found
\* the connection not live; ending anywhere else it returns the placeholder
\* success receipt (first probe not live), the receipt of the chain, or raises
\* the error of the wait (second probe live).
C24_FailedReceiptOnlyAfterLoss ==
    [][\A t \in Threads :
          LET f  == frame'[t]
              at == frame[t].pc
          IN  /\ (at = "wait.is_connected" /\ f.pc \notin {"done", at}) => Live
              /\ (at = "wait_for_transaction_receipt" /\ f.pc = "wait.except") => f.exc # None
              /\ WaitEnds(t) =>
                    CASE at = "wait.except" ->
                            /\ f.did[1] = "is_connected"
                            /\ f.exc # None
                            /\ IF Live THEN f.ret = Raise(f.exc)
                                       ELSE f.ret = Return(FailedReceipt(f.args[1], f.exc))
                      [] at = "wait_for_transaction_receipt" ->
                            /\ Live
                            /\ f.ret.kind = "return"
                            /\ f.ret.val \in {ChainReceipt(f.args[1], 0), ChainReceipt(f.args[1], 1)}
                      [] OTHER ->
                            /\ ~Live
                            /\ f.ret = Return(DummyReceipt(f.args[1]))]_vars

\* the failed receipt: the first probe answered, the wait broke with the
\* connection, and the second probe found it gone
C24_Witness ==
    \E t \in Threads :
        /\ frame[t].op = "wait_for_transaction"
        /\ frame[t].pc = "done"
        /\ frame[t].did = <<"is_connected", "wait_for_transaction_receipt", "is_connected">>
        /\ frame[t].ret = Return(FailedReceipt(frame[t].args[1], "ConnectionError"))
        /\ ~reachable

\* the constructor reads the private key in this step
ReadsKey == init_pc = "key" /\ init_pc' # "key"

\* the probe of the constructor had succeeded: the handle and the chain id
\* are set when the key is read
Probed == w3 # None /\ chain_id # Nothing

\* C25: a private key that is supplied but cannot be turned into an account
\* ends the initialization with no client, no chain id and no signer, also when
\* the probe had succeeded; is_connected() then answers false and no contract
\* is loaded, for the rest of the process. With no private key a successful
\* probe leaves the client and the chain id in place and no signer: the
\* service is connected and read-only.
C25_BadKeyDropsClient ==
    [][/\ (ReadsKey /\ environ.BLOCKCHAIN_PRIVATE_KEY = "malformed") =>
             w3' = None /\ chain_id' = Nothing /\ account' = None
       /\ (ReadsKey /\ environ.BLOCKCHAIN_PRIVATE_KEY = "unset" /\ Probed) =>
             w3' = w3 /\ chain_id' = chain_id /\ account' = None
       /\ (init_pc' = "ready" /\ environ.BLOCKCHAIN_PRIVATE_KEY = "malformed") =>
             /\ w3' = None /\ chain_id' = Nothing /\ account' = None
             /\ contracts' = {}
             /\ \A t \in Threads :
                   (frame'[t].op = "is_connected" /\ frame'[t].pc = "done") =>
                       frame'[t].ret = Return(FALSE)
       /\ (init_pc' = "ready" /\ environ.BLOCKCHAIN_PRIVATE_KEY = "unset" /\ w3' # None) =>
             /\ account' = None
             /\ chain_id' # Nothing
             /\ \A t \in Threads :
                   (frame[t].pc = "is_connected" /\ frame'[t].pc = "done") =>
                       frame'[t].ret = Return(reachable)]_vars

\* after a construction with a malformed key, is_connected() answered false
\* while the endpoint, the packages and the artifacts are all there
C25_Witness ==
    /\ init_pc = "ready"
    /\ environ.BLOCKCHAIN_PRIVATE_KEY = "malformed"
    /\ environ.importable
    /\ \A c \in ContractNames : Loadable(c)
    /\ reachable
    /\ frame["t1"].op = "is_connected" /\ frame["t1"].ret = Return(FALSE)
    /\ w3 = None /\ contracts = {}

\* thread t's send_transaction or call_function moves in this step
ExecutorMoves(t) ==
    /\ frame'[t] # frame[t]
    /\ frame'[t].op \in {"send_transaction", "call_function"}

\* C26: when the connection is not live as the service is constructed, no
\* contract is loaded, and from then on every send_transaction and every
\* call_function fails, with the no-signer error or the not-loaded error, and
\* the node never receives a transaction, whether the endpoint comes back or
\* not and whether a signer is configured or not.
C26_DeadStartStaysDead ==
    [][/\ (init_pc = "load" /\ init_pc' = "ready" /\ ~Live) => contracts' = {}
       /\ (init_pc = "ready" /\ w3 = None) => contracts = {}
       /\ (init_pc = "ready" /\ contracts = {}) =>
             /\ contracts' = {}
             /\ node.received = <<>> /\ node' = node
             /\ \A t \in Threads :
                   ExecutorMoves(t) =>
                      /\ frame'[t].pc = "done"
                      /\ frame'[t].ret.kind = "raise"
                      /\ IF frame'[t].op = "send_transaction" /\ account = None
                            THEN frame'[t].ret.err = "NoSigner"
                            ELSE frame'[t].ret.err = "NotLoaded"]_vars

\* a send_transaction that failed with the not-loaded error on a service that
\* has a signer and whose endpoint is reachable again, the client having been
\* dropped at startup
C26_Witness ==
    /\ init_pc = "ready"
    /\ w3 = None /\ contracts = {}
    /\ account = SignerAddress
    /\ reachable
    /\ \A c \in ContractNames : Loadable(c)
    /\ frame["t1"].op = "send_transaction"
    /\ frame["t1"].args[1] \in ContractNames
    /\ frame["t1"].ret = Raise("NotLoaded")
    /\ node.received = <<>>

\* C27: when the chain is connected, get_user_tickets answers with the tickets
\* read from the chain if there are any and with the stored tickets of the user
\* and address otherwise, and its response has no offline_mode key.
C27_OnlineTicketsUnflagged ==
    [][\A t \in Threads :
          (Completes(t, "get_user_tickets") /\ Live) =>
             LET body == frame'[t].ret.val.body
             IN  /\ frame'[t].ret.val.status = 200
                 /\ "offline_mode" \notin DOMAIN body
                 /\ DOMAIN body = {"tickets"}]_vars

\* the listing answered on a live connection, from the store and flagged as
\* offline data
C27_Witness ==
    \E t \in Threads :
        /\ frame[t].op = "get_user_tickets"
        /\ frame[t].pc = "done"
        /\ Live
        /\ frame[t].args = <<1, "0xA">>
        /\ frame[t].ret.val.body.offline_mode = TRUE
        /\ "message" \in DOMAIN frame[t].ret.val.body
        /\ frame[t].ret.val.body.message = "Using offline data due to blockchain connection issues"
        /\ frame[t].ret.val.body.tickets # {}

\* the tickets the script holds: the one under construction and those appended
Pending(s) == Range(s.demo_tickets) \cup (IF s.ticket = Nothing THEN {} ELSE {s.ticket[1]})

\* C21: the used flag of a ticket is one-way. A ticket is constructed without
\* the flag, its row is inserted unused unless the script had marked it, and
\* once the flag is true, on the object or on the row, no step sets it back:
\* a marked object stays marked until it is inserted used (or dropped with its
\* failed commit), and a used row stays a used row.
C21_UsedIsOneWay ==
    [][/\ \A r \in tickets :
             r.is_used => \E q \in tickets' : q.token_id = r.token_id /\ q.is_used
       /\ \A p \in Pending(setup) :
             p.is_used = Some(TRUE) =>
                IF setup.pc = "commit"
                   THEN \/ \E q \in tickets' : q.token_id = p.token_id /\ q.is_used
                        \/ tickets' = tickets
                   ELSE \E q \in Pending(setup') : q.token_id = p.token_id /\ q.is_used = Some(TRUE)
       /\ \A p \in Pending(setup') \ Pending(setup) :
             p.token_id \notin {q.token_id : q \in Pending(setup)} => p.is_used = Nothing
       /\ \A r \in tickets' \ tickets :
             r.is_used => \E p \in Pending(setup) : p.token_id = r.token_id /\ p.is_used = Some(TRUE)]_vars

\* the script has inserted its demo tickets: the third, which it had marked, is
\* a used row, the first an unused one
C21_Witness ==
    /\ setup.pc = "done"
    /\ Len(setup.demo_tickets) >= 3
    /\ \E r \in tickets : r.token_id = 3 /\ r.is_used
    /\ \E r \in tickets : r.token_id = 1 /\ ~r.is_used

\* C22: GET /profiles/<user_id> never discloses email, is_active, is_admin or
\* wallet_verified: a 200 answer holds the profile of a user whose profile is
\* public, without these four keys, and every other answer holds no profile.
\* For a user whose is_profile_public is false, the answer is 403 (500 when the
\* row could not be read) and holds nothing but the error.
C22_PublicProfileHidesFields ==
    [][\A t \in Threads :
          Completes(t, "get_public_profile") =>
             LET r  == frame'[t].ret.val
                 id == frame'[t].args[1]
             IN  /\ r.status \in {200, 403, 404, 500}
                 /\ r.status = 200 =>
                       /\ id \in DOMAIN users /\ users[id].is_profile_public
                       /\ DOMAIN r.body = {"profile"}
                       /\ DOMAIN r.body.profile \cap {"email", "is_active", "is_admin", "wallet_verified"} = {}
                       /\ \A k \in DOMAIN r.body.profile : r.body.profile[k] = to_dict(users[id])[k]
                       /\ {"id", "username", "wallet_address"} \subseteq DOMAIN r.body.profile
                 /\ r.status # 200 => DOMAIN r.body \subseteq {"error", "details"}
                 /\ (id \in DOMAIN users /\ ~users[id].is_profile_public) =>
                       /\ r.status \in {403, 500}
                       /\ "User.query" \in Range(frame'[t].did) => r.status = 403]_vars

\* one request got the profile of user 1 without the four fields, another got
\* 403 for user 1 after the profile was made private
C22_Witness ==
    /\ frame["t1"].op = "get_public_profile" /\ frame["t1"].args = <<1>>
    /\ frame["t1"].ret.val.status = 200
    /\ "email" \notin DOMAIN frame["t1"].ret.val.body.profile
    /\ ~users[1].is_profile_public
    /\ frame["t2"].op = "get_public_profile" /\ frame["t2"].args = <<1>>
    /\ frame["t2"].ret.val = Response(403, [error |-> "Profile is private"])

\* C28: PUT /profiles/me/wallet leaves a row with wallet_verified true only
\* when the request carried a signature and a message and the signature
\* recovers to the new address; when the verification fails the answer is 400
\* and wallet_address and wallet_verified keep their values.
C28_VerifiedOnlyBySignature ==
    [][\A t \in MainThreads :
          Completes(t, "update_wallet_address") =>
             LET id   == frame'[t].args[1]
                 data == frame'[t].args[2]
                 r    == frame'[t].ret.val
             IN  /\ (id \in DOMAIN users /\ users'[id] # users[id] /\ users'[id].wallet_verified) =>
                       /\ data.signature # Nothing /\ data.message # Nothing
                       /\ recover_message(data.message[1], data.signature[1])
                             = Return(users'[id].wallet_address)
                 /\ (r.status = 400) => users' = users
                 /\ \A other \in DOMAIN users \ {id} : users'[other] = users[other]]_vars

\* user 3, who had no wallet and was not verified, is verified for 0xC by a
\* request that carried no signature
C28_Witness ==
    /\ frame["t1"].op = "update_wallet_address"
    /\ frame["t1"].args[1] = 3
    /\ frame["t1"].args[2].signature = Nothing
    /\ frame["t1"].ret.val.status = 200
    /\ users[3].wallet_address = "0xC"
    /\ users[3].wallet_verified
    /\ ~DemoUsers[3].wallet_verified

C30_StartBeforeEnd ==
    \A id \in DOMAIN events :
        events[id].end_date # Nothing => events[id].start_date < events[id].end_date[1]

\* an accepted update of event 1 that carried only a start_date left the
\* event starting after its end
C30_Witness ==
    /\ frame["t1"].op = "update_event"
    /\ frame["t1"].args[1] = 1
    /\ frame["t1"].args[3].end_date = Absent
    /\ frame["t1"].ret.val.status = 200
    /\ events[1].end_date = Some(22)
    /\ events[1].start_date = 23

====
